---------------------------- MODULE Spec2Model ----------------------------
(***************************************************************************)
(* A model of the fixed_analytics crate: CORDIC kernels, the elementary    *)
(* functions built on them, the bounded value types and the error type,    *)
(* over signed two's-complement fixed-point numbers.                       *)
(*                                                                         *)
(* A fixed-point value is modelled by its bit pattern, an integer in       *)
(* min_value(c) .. max_value(c); the value it stands for is bits / 2^F.        *)
(* A context c = [W, F, debug] names the instantiated type (FixedI<W>      *)
(* with F fractional bits) and the build profile.  Arithmetic overflow of  *)
(* the non-saturating operators (+, -, unary -, /, shift amounts) panics   *)
(* when overflow checks are compiled in (debug) and wraps otherwise        *)
(* (release); a zero divisor panics in every build; unbounded recursion    *)
(* aborts the process.  Panic is the poison value all of these yield.      *)
(***************************************************************************)
EXTENDS Integers, Sequences, FiniteSets, TLC

VARIABLES ty, build, pc, fn, arg, arg2, out, tr

vars == <<ty, build, pc, fn, arg, arg2, out, tr>>

(***************************************************************************)
(* Bounds of the model.                                                    *)
(***************************************************************************)
\* Call-stack budget: a recursion deeper than this is an abort (the
\* recursions of the crate that terminate are far shallower).
MaxDepth == 12

\* Half-width, in units of 1.0, of the dense input window sampled around
\* zero for the 16-bit type (8-bit types are enumerated exhaustively).
SampleSpan == 3

\* For the 32-bit type: the largest magnitude of an argument, in units of
\* 1.0, and the distance in bit patterns between two sampled arguments.
WideSpan == 100
WideStride == 997

(***************************************************************************)
(* Types                                                                   *)
(***************************************************************************)
\* FixedI8<U5>, FixedI8<U4> and FixedI16<U6>: three of the instantiations
\* admitted by impl_cordic_generic!.
I3F5 == [W |-> 8, F |-> 5]
I4F4 == [W |-> 8, F |-> 4]
I10F6 == [W |-> 16, F |-> 6]

\* FixedI32<U16>, the type of the crate's examples and tests.  Its products
\* need 64 bits, so only the operations that add, subtract and shift are
\* evaluated on it.
I16F16 == [W |-> 32, F |-> 16]

Types == {I3F5, I4F4, I10F6}

Builds == {"debug", "release"}

Ctx(t, b) == [W |-> t.W, F |-> t.F, debug |-> (b = "debug")]

\* The outcome of an operation that did not return: a value no operand of
\* the modelled calls takes (above every 8- and 16-bit pattern, and above
\* what sin_cos computes on I16F16 for the sampled magnitudes).
Panic == 1000000000

Pow2(n) == 2 ^ n

\* 2^(W-1) - 1 and -2^(W-1), written so that no intermediate value exceeds
\* them.
max_value(c) == (Pow2(c.W - 2) - 1) + Pow2(c.W - 2)
min_value(c) == -max_value(c) - 1

InRange(c, v) == v >= min_value(c) /\ v <= max_value(c)

\* Two's-complement wrap-around to W bits.
Wrap(c, v) ==
  IF InRange(c, v) THEN v
  ELSE (((v % Pow2(c.W)) - min_value(c)) % Pow2(c.W)) + min_value(c)

Saturate(c, v) ==
  IF v > max_value(c) THEN max_value(c) ELSE IF v < min_value(c) THEN min_value(c) ELSE v

\* Outcome of an overflow-checked primitive: panic with overflow checks,
\* wrap without.
Overflowing(c, v) ==
  IF InRange(c, v) THEN v ELSE IF c.debug THEN Panic ELSE Wrap(c, v)

IsPanic(a) == a = Panic

AbsInt(n) == IF n < 0 THEN -n ELSE n

\* Operators of core::ops on the fixed type:  +  -  unary -
add(c, a, b) == IF IsPanic(a) \/ IsPanic(b) THEN Panic ELSE Overflowing(c, a + b)
sub(c, a, b) == IF IsPanic(a) \/ IsPanic(b) THEN Panic ELSE Overflowing(c, a - b)
neg(c, a) == IF IsPanic(a) THEN Panic ELSE Overflowing(c, -a)

zero(c) == 0
one(c) == Pow2(c.F)

is_negative(c, a) == a < 0
is_positive(c, a) == ~is_negative(c, a) /\ a # 0

abs(c, a) == IF IsPanic(a) THEN Panic ELSE IF is_negative(c, a) THEN neg(c, a) ELSE a

saturating_add(c, a, b) ==
  IF IsPanic(a) \/ IsPanic(b) THEN Panic ELSE Saturate(c, a + b)

saturating_sub(c, a, b) ==
  IF IsPanic(a) \/ IsPanic(b) THEN Panic ELSE Saturate(c, a - b)

\* The double-width product shifted right arithmetically by F, saturated.
saturating_mul(c, a, b) ==
  IF IsPanic(a) \/ IsPanic(b) THEN Panic ELSE Saturate(c, (a * b) \div Pow2(c.F))

\* Quotient truncated toward zero of (a << F) / b.
TruncDiv(n, d) ==
  LET q == AbsInt(n) \div AbsInt(d)
  IN  IF (n < 0) # (d < 0) THEN -q ELSE q

div(c, a, b) ==
  IF IsPanic(a) \/ IsPanic(b) THEN Panic
  ELSE IF b = 0 THEN Panic
  ELSE Overflowing(c, TruncDiv(a * Pow2(c.F), b))

\* Shr<u32> / Shl<u32>: a shift amount of W or more overflows; without
\* overflow checks the amount is masked to the low bits.
ShiftAmountOk(c, i) == i < c.W

shr(c, a, i) ==
  IF IsPanic(a) THEN Panic
  ELSE IF ShiftAmountOk(c, i) THEN a \div Pow2(i)
  ELSE IF c.debug THEN Panic
  ELSE a \div Pow2(i % c.W)

shl(c, a, i) ==
  IF IsPanic(a) THEN Panic
  ELSE IF ShiftAmountOk(c, i) THEN Wrap(c, a * Pow2(i))
  ELSE IF c.debug THEN Panic
  ELSE Wrap(c, a * Pow2(i % c.W))

\* from_num of a rational n/d: round to nearest, ties to even.
from_num(c, n, d) ==
  LET s == n * Pow2(c.F)
      fl == s \div d
      r == s % d
  IN  IF 2 * r > d \/ (2 * r = d /\ fl % 2 = 1) THEN fl + 1 ELSE fl

two(c) == from_num(c, 2, 1)
half(c) == from_num(c, 1, 2)

\* Associated constants of the fixed type: the mathematical constant
\* truncated to F fractional bits, computed here from its value with 28
\* fractional bits (pi = 843314856 / 2^28, ln 2 = 186065279 / 2^28,
\* ln 10 = 618095479 / 2^28).
pi(c) == 843314856 \div Pow2(28 - c.F)
frac_pi_2(c) == 421657428 \div Pow2(28 - c.F)
ln_2(c) == 186065279 \div Pow2(28 - c.F)
ln_10(c) == 618095479 \div Pow2(28 - c.F)

frac_bits(c) == c.F

(***************************************************************************)
(* 64-bit bit patterns (i64) are sequences of four 16-bit limbs, most      *)
(* significant first.                                                      *)
(***************************************************************************)
Limb(l, k) == IF k <= 3 THEN l[4 - k] ELSE IF l[1] >= 32768 THEN 65535 ELSE 0

\* The low 16 bits of (bits >> s), arithmetic shift.
ShrLow16(l, s) ==
  LET k == s \div 16
      r == s % 16
  IN  (Limb(l, k) \div Pow2(r)) + (Limb(l, k + 1) % Pow2(r)) * Pow2(16 - r)

\* The low 16 bits of (bits << s).
ShlLow16(l, s) == IF s >= 16 THEN 0 ELSE (l[4] * Pow2(s)) % 65536

\* 1i64 << k
OneShl(k) == [i \in 1..4 |-> IF 4 - i = k \div 16 THEN Pow2(k % 16) ELSE 0]

\* from_bits(... as $bits_type): the narrowing cast keeps the low W bits.
from_i64_frac(c, bits) ==
  LET shift == 63 - c.F
      \* the low 32 bits as an i32, from their two 16-bit halves
      Low32(lo, hi) == (IF hi >= 32768 THEN hi - 65536 ELSE hi) * 65536 + lo
  IN  IF shift >= 0
      THEN Wrap(c, Low32(ShrLow16(bits, shift), ShrLow16(bits, shift + 16)))
      ELSE Wrap(c, ShlLow16(bits, -shift))

from_i2f62_frac(c, bits) ==
  LET shift == 62 - c.F
      Low32(lo, hi) == (IF hi >= 32768 THEN hi - 65536 ELSE hi) * 65536 + lo
  IN  IF shift >= 0
      THEN Wrap(c, Low32(ShrLow16(bits, shift), ShrLow16(bits, shift + 16)))
      ELSE Wrap(c, ShlLow16(bits, -shift))

(***************************************************************************)
(* Tables                                                                  *)
(***************************************************************************)
\* A table of 64 equal entries.
ATAN_TABLE_flat == [i \in 1..64 |-> <<0, 0, 0, 1>>]

ATAN_TABLE ==
  <<
    <<25735, 60753, 4276, 24858>>,
    <<15192, 52746, 50038, 40657>>,
    <<8027, 30201, 11392, 56675>>,
    <<4074, 56653, 22039, 46819>>,
    <<2045, 22253, 52031, 31346>>,
    <<1023, 43703, 29998, 50325>>,
    <<511, 62805, 48055, 10667>>,
    <<255, 65194, 44509, 54457>>,
    <<127, 65493, 21870, 61149>>,
    <<63, 65530, 43691, 30583>>,
    <<31, 65535, 21845, 23484>>,
    <<15, 65535, 60074, 43742>>,
    <<7, 65535, 64853, 21847>>,
    <<3, 65535, 65450, 43691>>,
    <<1, 65535, 65525, 21845>>,
    <<0, 65535, 65534, 43691>>,
    <<0, 32767, 65535, 54613>>,
    <<0, 16383, 65535, 64171>>,
    <<0, 8191, 65535, 65365>>,
    <<0, 4095, 65535, 65515>>,
    <<0, 2047, 65535, 65533>>,
    <<0, 1024, 0, 0>>,
    <<0, 512, 0, 0>>,
    <<0, 256, 0, 0>>,
    <<0, 128, 0, 0>>,
    <<0, 64, 0, 0>>,
    <<0, 32, 0, 0>>,
    <<0, 16, 0, 0>>,
    <<0, 8, 0, 0>>,
    <<0, 4, 0, 0>>,
    <<0, 2, 0, 0>>,
    <<0, 1, 0, 0>>,
    <<0, 0, 32768, 0>>,
    <<0, 0, 16384, 0>>,
    <<0, 0, 8192, 0>>,
    <<0, 0, 4096, 0>>,
    <<0, 0, 2048, 0>>,
    <<0, 0, 1024, 0>>,
    <<0, 0, 512, 0>>,
    <<0, 0, 256, 0>>,
    <<0, 0, 128, 0>>,
    <<0, 0, 64, 0>>,
    <<0, 0, 32, 0>>,
    <<0, 0, 16, 0>>,
    <<0, 0, 8, 0>>,
    <<0, 0, 4, 0>>,
    <<0, 0, 2, 0>>,
    <<0, 0, 1, 0>>,
    <<0, 0, 0, 32768>>,
    <<0, 0, 0, 16384>>,
    <<0, 0, 0, 8192>>,
    <<0, 0, 0, 4096>>,
    <<0, 0, 0, 2048>>,
    <<0, 0, 0, 1024>>,
    <<0, 0, 0, 512>>,
    <<0, 0, 0, 256>>,
    <<0, 0, 0, 128>>,
    <<0, 0, 0, 64>>,
    <<0, 0, 0, 32>>,
    <<0, 0, 0, 16>>,
    <<0, 0, 0, 8>>,
    <<0, 0, 0, 4>>,
    <<0, 0, 0, 2>>,
    <<0, 0, 0, 1>>
  >>

ATANH_TABLE ==
  <<
    <<17999, 43498, 46092, 10846>>,
    <<8369, 24053, 552, 41806>>,
    <<4117, 35100, 40622, 63338>>,
    <<2050, 44101, 27066, 54894>>,
    <<1024, 21858, 9323, 47251>>,
    <<512, 2731, 4373, 41875>>,
    <<256, 341, 22664, 37293>>,
    <<128, 42, 43716, 17495>>,
    <<64, 5, 21846, 8738>>,
    <<32, 0, 43690, 45329>>,
    <<16, 0, 5461, 21897>>,
    <<8, 0, 682, 43692>>,
    <<4, 0, 85, 21845>>,
    <<2, 0, 10, 43691>>,
    <<1, 0, 1, 21845>>,
    <<0, 32768, 0, 10923>>,
    <<0, 16384, 0, 1365>>,
    <<0, 8192, 0, 171>>,
    <<0, 4096, 0, 21>>,
    <<0, 2048, 0, 3>>,
    <<0, 1024, 0, 0>>,
    <<0, 512, 0, 0>>,
    <<0, 256, 0, 0>>,
    <<0, 128, 0, 0>>,
    <<0, 64, 0, 0>>,
    <<0, 32, 0, 0>>,
    <<0, 16, 0, 0>>,
    <<0, 8, 0, 0>>,
    <<0, 4, 0, 0>>,
    <<0, 2, 0, 0>>,
    <<0, 1, 0, 0>>,
    <<0, 0, 32768, 0>>,
    <<0, 0, 16384, 0>>,
    <<0, 0, 8192, 0>>,
    <<0, 0, 4096, 0>>,
    <<0, 0, 2048, 0>>,
    <<0, 0, 1024, 0>>,
    <<0, 0, 512, 0>>,
    <<0, 0, 256, 0>>,
    <<0, 0, 128, 0>>,
    <<0, 0, 64, 0>>,
    <<0, 0, 32, 0>>,
    <<0, 0, 16, 0>>,
    <<0, 0, 8, 0>>,
    <<0, 0, 4, 0>>,
    <<0, 0, 2, 0>>,
    <<0, 0, 1, 0>>,
    <<0, 0, 0, 32768>>,
    <<0, 0, 0, 16384>>,
    <<0, 0, 0, 8192>>,
    <<0, 0, 0, 4096>>,
    <<0, 0, 0, 2048>>,
    <<0, 0, 0, 1024>>,
    <<0, 0, 0, 512>>,
    <<0, 0, 0, 256>>,
    <<0, 0, 0, 128>>,
    <<0, 0, 0, 64>>,
    <<0, 0, 0, 32>>,
    <<0, 0, 0, 16>>,
    <<0, 0, 0, 8>>,
    <<0, 0, 0, 4>>,
    <<0, 0, 0, 2>>,
    <<0, 0, 0, 1>>,
    <<0, 0, 0, 1>>
  >>

CIRCULAR_GAIN_INV == <<19898, 30420, 8623, 11572>>
HYPERBOLIC_GAIN_INV == <<19783, 41416, 955, 2250>>
ATANH_HALF == <<17999, 43498, 46092, 10846>>
HYPERBOLIC_LIMIT_FRAC == <<3874, 15728, 41943, 2621>>
ASIN_SQRT_THRESHOLD == <<1, 0, 0, 0>>

REPEAT_INDICES == <<4, 13, 40, 121, 364>>

needs_repeat(index) == \E k \in 1..Len(REPEAT_INDICES) : REPEAT_INDICES[k] = index

table_lookup(table, index) == table[index + 1]

(***************************************************************************)
(* Kernel                                                                  *)
(***************************************************************************)
\* The initial vector without compensation of the CORDIC gain.
circular_gain_inv_uncompensated(c) == one(c)
circular_gain_inv(c) == from_i64_frac(c, CIRCULAR_GAIN_INV)
hyperbolic_gain_inv(c) == from_i2f62_frac(c, HYPERBOLIC_GAIN_INV)

Min2(a, b) == IF a < b THEN a ELSE b
Clamp(v, lo, hi) == IF v < lo THEN lo ELSE Min2(v, hi)


\* The branch `x - (y >> i), y + (x >> i)` of a micro-step.
StepSubAdd(c, x, y, i) ==
  <<saturating_sub(c, x, shr(c, y, i)), saturating_add(c, y, shr(c, x, i))>>
\* The same branch with y updated from the new x instead of the old one.
StepAddSub_sequential(c, x, y, i) ==
  <<saturating_add(c, x, shr(c, y, i)),
    saturating_sub(c, y, shr(c, saturating_add(c, x, shr(c, y, i)), i))>>
\* The branch `x + (y >> i), y - (x >> i)`.
StepAddSub(c, x, y, i) ==
  <<saturating_add(c, x, shr(c, y, i)), saturating_sub(c, y, shr(c, x, i))>>
\* The branch `x + (y >> i), y + (x >> i)`.
StepAddAdd(c, x, y, i) ==
  <<saturating_add(c, x, shr(c, y, i)), saturating_add(c, y, shr(c, x, i))>>
\* The branch `x - (y >> i), y - (x >> i)`.
StepSubSub(c, x, y, i) ==
  <<saturating_sub(c, x, shr(c, y, i)), saturating_sub(c, y, shr(c, x, i))>>

CircularIterations(c) == Min2(frac_bits(c), 62)

RECURSIVE circular_rotation_loop(_, _, _, _, _)
circular_rotation_loop(c, i, x, y, z) ==
  IF IsPanic(x) \/ IsPanic(y) \/ IsPanic(z) THEN <<Panic, Panic, Panic>>
  ELSE IF i >= CircularIterations(c) THEN <<x, y, z>>
  ELSE LET angle == from_i64_frac(c, table_lookup(ATAN_TABLE, i))
           Iterate(xy, zn) == circular_rotation_loop(c, i + 1, xy[1], xy[2], zn)
       IN  IF z >= zero(c) THEN Iterate(StepSubAdd(c, x, y, i), sub(c, z, angle))
           ELSE Iterate(StepAddSub(c, x, y, i), add(c, z, angle))

circular_rotation(c, x, y, z) == circular_rotation_loop(c, 0, x, y, z)

RECURSIVE circular_vectoring_loop(_, _, _, _, _)
circular_vectoring_loop(c, i, x, y, z) ==
  IF IsPanic(x) \/ IsPanic(y) \/ IsPanic(z) THEN <<Panic, Panic, Panic>>
  ELSE IF i >= CircularIterations(c) THEN <<x, y, z>>
  ELSE LET angle == from_i64_frac(c, table_lookup(ATAN_TABLE, i))
           Iterate(xy, zn) == circular_vectoring_loop(c, i + 1, xy[1], xy[2], zn)
       IN  IF y < zero(c) THEN Iterate(StepSubAdd(c, x, y, i), sub(c, z, angle))
           ELSE Iterate(StepAddSub(c, x, y, i), add(c, z, angle))

circular_vectoring(c, x, y, z) == circular_vectoring_loop(c, 0, x, y, z)

HyperbolicRotationIterations(c) == Min2(frac_bits(c), 54)
HyperbolicVectoringIterations(c) == Clamp(frac_bits(c), 24, 54)

\* The table read at the shift index itself.
TableIndex_unshifted(i) == i
\* i.saturating_sub(1) on u32
TableIndex(i) == IF i >= 1 THEN i - 1 ELSE 0

RECURSIVE hyperbolic_rotation_loop(_, _, _, _, _, _, _)
hyperbolic_rotation_loop(c, i, iteration_count, repeated, x, y, z) ==
  IF IsPanic(x) \/ IsPanic(y) \/ IsPanic(z) THEN <<Panic, Panic, Panic>>
  ELSE IF ~(iteration_count < HyperbolicRotationIterations(c) /\ i < 64) THEN <<x, y, z>>
  ELSE LET angle == from_i64_frac(c, table_lookup(ATANH_TABLE, TableIndex(i)))
           rep == needs_repeat(i) /\ ~repeated
           Iterate(xy, zn) ==
             hyperbolic_rotation_loop(c, IF rep THEN i ELSE i + 1, iteration_count + 1,
                                      rep, xy[1], xy[2], zn)
       IN  IF z >= zero(c) THEN Iterate(StepAddAdd(c, x, y, i), sub(c, z, angle))
           ELSE Iterate(StepSubSub(c, x, y, i), add(c, z, angle))

hyperbolic_rotation(c, x, y, z) == hyperbolic_rotation_loop(c, 1, 0, FALSE, x, y, z)

RECURSIVE hyperbolic_vectoring_loop(_, _, _, _, _, _, _)
hyperbolic_vectoring_loop(c, i, iteration_count, repeated, x, y, z) ==
  IF IsPanic(x) \/ IsPanic(y) \/ IsPanic(z) THEN <<Panic, Panic, Panic>>
  ELSE IF ~(iteration_count < HyperbolicVectoringIterations(c) /\ i < 64) THEN <<x, y, z>>
  ELSE LET angle == from_i64_frac(c, table_lookup(ATANH_TABLE, TableIndex(i)))
           rep == needs_repeat(i) /\ ~repeated
           Iterate(xy, zn) ==
             hyperbolic_vectoring_loop(c, IF rep THEN i ELSE i + 1, iteration_count + 1,
                                       rep, xy[1], xy[2], zn)
       IN  IF y < zero(c) THEN Iterate(StepAddAdd(c, x, y, i), sub(c, z, angle))
           ELSE Iterate(StepSubSub(c, x, y, i), add(c, z, angle))

hyperbolic_vectoring(c, x, y, z) == hyperbolic_vectoring_loop(c, 1, 0, FALSE, x, y, z)

(***************************************************************************)
(* Error type and outcomes                                                 *)
(***************************************************************************)
\* Result<T>: Ok(v), Err(Error::DomainError {function, expected}), or the
\* call did not return (panic / abort).
OkR(v) ==
  IF IsPanic(v) THEN [k |-> "panic", v |-> 0, v2 |-> 0, function |-> "", expected |-> ""]
  ELSE [k |-> "ok", v |-> v, v2 |-> 0, function |-> "", expected |-> ""]

OkPair(p) ==
  IF IsPanic(p[1]) \/ IsPanic(p[2])
  THEN [k |-> "panic", v |-> 0, v2 |-> 0, function |-> "", expected |-> ""]
  ELSE [k |-> "ok", v |-> p[1], v2 |-> p[2], function |-> "", expected |-> ""]

DomainError(function, expected) ==
  [k |-> "err", v |-> 0, v2 |-> 0, function |-> function, expected |-> expected]

PanicR == OkR(Panic)

IsOk(r) == r.k = "ok"
IsErr(r) == r.k = "err"

\* Result::map
MapR(r, v) == IF IsOk(r) THEN OkR(v) ELSE r

(***************************************************************************)
(* ops::algebraic                                                          *)
(***************************************************************************)
\* A single Newton-Raphson iteration in place of 8 to 20.
NewtonIterations_single(c) == 1
NewtonIterations(c) == Clamp(frac_bits(c) \div 2, 8, 20)

SqrtEpsilon(c) == from_i64_frac(c, OneShl(Clamp(63 - (frac_bits(c) \div 2), 0, 63)))

\* while test >= four && iter_guard < 64 { test >>= 2; g <<= 1; iter_guard += 1 }
RECURSIVE sqrt_estimate_loop(_, _, _, _, _)
sqrt_estimate_loop(c, test, g, four, iter_guard) ==
  IF IsPanic(test) \/ IsPanic(g) THEN Panic
  ELSE IF test >= four /\ iter_guard < 64
       THEN sqrt_estimate_loop(c, shr(c, test, 2), shl(c, g, 1), four, iter_guard + 1)
       ELSE g

sqrt_initial_guess(c, x) ==
  IF x > one(c)
  THEN LET four == saturating_mul(c, two(c), two(c))
           \* (g + x / g) >> 1
           Refine(g) == shr(c, saturating_add(c, g, div(c, x, g)), 1)
       IN  Refine(sqrt_estimate_loop(c, x, one(c), four, 0))
  ELSE x

\* for _ in 0..iterations - 1 { ... early return ... }; final iteration
RECURSIVE sqrt_newton_loop(_, _, _, _)
sqrt_newton_loop(c, x, guess, n) ==
  IF IsPanic(guess) THEN Panic
  ELSE LET quotient == div(c, x, guess)
           sum == saturating_add(c, guess, quotient)
           Converged(new_guess, diff) ==
             IF IsPanic(diff) THEN Panic
             ELSE IF diff <= SqrtEpsilon(c) THEN new_guess
             ELSE sqrt_newton_loop(c, x, new_guess, n - 1)
           Step(new_guess) ==
             IF IsPanic(new_guess) THEN Panic
             ELSE IF n = 0 THEN new_guess
             ELSE IF new_guess > guess
                  THEN Converged(new_guess, sub(c, new_guess, guess))
                  ELSE Converged(new_guess, sub(c, guess, new_guess))
       IN  Step(saturating_mul(c, sum, half(c)))

sqrt_nonneg(c, x) ==
  IF IsPanic(x) THEN Panic
  ELSE IF x = zero(c) THEN zero(c)
  ELSE IF x = one(c) THEN one(c)
  ELSE sqrt_newton_loop(c, x, sqrt_initial_guess(c, x),
                        IF NewtonIterations(c) >= 1 THEN NewtonIterations(c) - 1 ELSE 0)

NonNegative_new(c, value) == IF value >= zero(c) THEN <<"Some", value>> ELSE <<"None", 0>>

sqrt(c, x) ==
  LET nn == NonNegative_new(c, x)
  IN  IF nn[1] = "Some" THEN OkR(sqrt_nonneg(c, nn[2]))
      ELSE DomainError("sqrt", "non-negative value")

\* The square root used as a plain value by asin, asinh and acosh (their
\* arguments are never negative; a negative one has no value to use).
sqrt_value(c, x) ==
  IF IsPanic(x) THEN Panic
  ELSE LET Value(r) == IF IsOk(r) THEN r.v ELSE Panic IN Value(sqrt(c, x))

(***************************************************************************)
(* ops::circular                                                           *)
(***************************************************************************)
SinCosMaxIterations == 64

\* while reduced > pi && iterations < max_iterations { reduced -= two_pi; ... }
RECURSIVE reduce_down(_, _, _, _)
reduce_down(c, reduced, two_pi, iterations) ==
  IF IsPanic(reduced) THEN <<Panic, iterations>>
  ELSE IF reduced > pi(c) /\ iterations < SinCosMaxIterations
       THEN reduce_down(c, sub(c, reduced, two_pi), two_pi, iterations + 1)
       ELSE <<reduced, iterations>>

\* while reduced < -pi && iterations < max_iterations { reduced += two_pi; ... }
RECURSIVE reduce_up(_, _, _, _)
reduce_up(c, reduced, two_pi, iterations) ==
  IF IsPanic(reduced) THEN <<Panic, iterations>>
  ELSE IF reduced < neg(c, pi(c)) /\ iterations < SinCosMaxIterations
       THEN reduce_up(c, add(c, reduced, two_pi), two_pi, iterations + 1)
       ELSE <<reduced, iterations>>

\* The value reduced toward [-pi, pi] (first reduction of sin_cos).
reduce_to_pi(c, angle) ==
  LET two_pi == add(c, pi(c), pi(c))
      Up(down) == reduce_up(c, down[1], two_pi, down[2])
  IN  IF IsPanic(two_pi) THEN Panic ELSE Up(reduce_down(c, angle, two_pi, 0))[1]

\* Second reduction: <<reduced, negate>>.
reduce_to_half_pi(c, reduced) ==
  IF IsPanic(reduced) THEN <<Panic, FALSE>>
  ELSE IF reduced > frac_pi_2(c) THEN <<sub(c, reduced, pi(c)), TRUE>>
  ELSE IF reduced < neg(c, frac_pi_2(c)) THEN <<add(c, reduced, pi(c)), TRUE>>
  ELSE <<reduced, FALSE>>

\* sin_cos with the intermediate values it computes.
sin_cos_parts(c, angle) ==
  LET Finish(red1, red2, negate, sin_val, cos_val) ==
        IF IsPanic(red1) \/ IsPanic(red2) \/ IsPanic(sin_val) \/ IsPanic(cos_val)
        THEN [red1 |-> red1, red2 |-> red2, negate |-> negate,
              sin |-> Panic, cos |-> Panic]
        ELSE [red1 |-> red1, red2 |-> red2, negate |-> negate,
              sin |-> sin_val, cos |-> cos_val]
      \* let (cos_val, sin_val, _) = circular_rotation(inv_gain, zero, reduced)
      Rotated(red1, red2, negate, rot) ==
        IF negate THEN Finish(red1, red2, negate, neg(c, rot[2]), neg(c, rot[1]))
        ELSE Finish(red1, red2, negate, rot[2], rot[1])
      Second(red1, second) ==
        Rotated(red1, second[1], second[2],
                circular_rotation(c, circular_gain_inv(c), zero(c), second[1]))
      First(red1) == Second(red1, reduce_to_half_pi(c, red1))
  IN  First(reduce_to_pi(c, angle))

sin_cos(c, angle) ==
  LET Both(p) == <<p.sin, p.cos>> IN Both(sin_cos_parts(c, angle))

sin(c, angle) == sin_cos(c, angle)[1]
cos(c, angle) == sin_cos(c, angle)[2]

tan(c, angle) ==
  LET Quotient(sc) == div(c, sc[1], sc[2]) IN Quotient(sin_cos(c, angle))

atan(c, x) ==
  IF IsPanic(x) THEN Panic
  ELSE IF x = zero(c) THEN zero(c)
  ELSE LET abs_x == abs(c, x)
       IN  IF IsPanic(abs_x) THEN Panic
           ELSE IF abs_x > one(c)
           THEN LET recip == div(c, one(c), x)
                    Complement(atan_recip) ==
                      IF is_positive(c, x) THEN sub(c, frac_pi_2(c), atan_recip)
                      ELSE sub(c, neg(c, frac_pi_2(c)), atan_recip)
                IN  Complement(circular_vectoring(c, one(c), recip, zero(c))[3])
           ELSE circular_vectoring(c, one(c), x, zero(c))[3]

\* The end of asin without the test of sqrt_term against the threshold.
asin_from_sqrt_term_unguarded(c, x, sqrt_term) ==
  IF IsPanic(sqrt_term) THEN PanicR
  ELSE OkR(atan(c, div(c, x, sqrt_term)))

\* The end of asin, from the square root of 1 - x^2 on.
asin_from_sqrt_term(c, x, sqrt_term) ==
  IF IsPanic(sqrt_term) THEN PanicR
  ELSE IF sqrt_term < from_i64_frac(c, ASIN_SQRT_THRESHOLD)
  THEN IF is_positive(c, x) THEN OkR(frac_pi_2(c)) ELSE OkR(neg(c, frac_pi_2(c)))
  ELSE OkR(atan(c, div(c, x, sqrt_term)))

asin(c, x) ==
  LET neg_one == neg(c, one(c))
  IN  IF x > one(c) \/ x < neg_one THEN DomainError("asin", "value in range [-1, 1]")
      ELSE IF x = one(c) THEN OkR(frac_pi_2(c))
      ELSE IF x = neg_one THEN OkR(neg(c, frac_pi_2(c)))
      ELSE IF x = zero(c) THEN OkR(zero(c))
      ELSE LET x_sq == saturating_mul(c, x, x)
               one_minus_x_sq == saturating_sub(c, one(c), x_sq)
           IN  asin_from_sqrt_term(c, x, sqrt_value(c, one_minus_x_sq))

acos(c, x) ==
  LET Complement(a) == MapR(a, sub(c, frac_pi_2(c), a.v)) IN Complement(asin(c, x))

\* atan2 without the early return for y = 0.
atan2_without_y_axis(c, y, x) ==
  IF x = zero(c)
  THEN IF is_negative(c, y) THEN neg(c, frac_pi_2(c))
       ELSE IF y = zero(c) THEN zero(c)
       ELSE frac_pi_2(c)
  ELSE LET Quadrant(base_angle) ==
             CASE ~is_negative(c, x) /\ ~is_negative(c, y) -> base_angle
               [] ~is_negative(c, x) /\ is_negative(c, y) -> neg(c, base_angle)
               [] is_negative(c, x) /\ ~is_negative(c, y) -> sub(c, pi(c), base_angle)
               [] is_negative(c, x) /\ is_negative(c, y) -> sub(c, base_angle, pi(c))
       IN  Quadrant(circular_vectoring(c, abs(c, x), abs(c, y), zero(c))[3])

atan2(c, y, x) ==
  IF x = zero(c)
  THEN IF is_negative(c, y) THEN neg(c, frac_pi_2(c))
       ELSE IF y = zero(c) THEN zero(c)
       ELSE frac_pi_2(c)
  ELSE IF y = zero(c) THEN IF is_negative(c, x) THEN pi(c) ELSE zero(c)
  ELSE LET Quadrant(base_angle) ==
             CASE ~is_negative(c, x) /\ ~is_negative(c, y) -> base_angle
               [] ~is_negative(c, x) /\ is_negative(c, y) -> neg(c, base_angle)
               [] is_negative(c, x) /\ ~is_negative(c, y) -> sub(c, pi(c), base_angle)
               [] is_negative(c, x) /\ is_negative(c, y) -> sub(c, base_angle, pi(c))
       IN  Quadrant(circular_vectoring(c, abs(c, x), abs(c, y), zero(c))[3])

(***************************************************************************)
(* ops::hyperbolic                                                         *)
(***************************************************************************)
Pair(a, b) == IF IsPanic(a) \/ IsPanic(b) THEN <<Panic, Panic>> ELSE <<a, b>>

HyperbolicLimit(c) == saturating_add(c, one(c), from_i64_frac(c, HYPERBOLIC_LIMIT_FRAC))

SmallThreshold(c) == from_num(c, 1, 10)

\* Returns <<sinh, cosh>>.
RECURSIVE sinh_cosh(_, _)
sinh_cosh(c, x) ==
  IF IsPanic(x) \/ IsPanic(abs(c, x)) THEN <<Panic, Panic>>
  ELSE IF abs(c, x) > HyperbolicLimit(c)
  THEN LET Double(sh, ch) ==
             Pair(saturating_mul(c, saturating_mul(c, sh, ch), two(c)),
                  saturating_add(c, saturating_mul(c, ch, ch),
                                 saturating_mul(c, sh, sh)))
           Halved(r) == Double(r[1], r[2])
       IN  Halved(sinh_cosh(c, shr(c, x, 1)))
  ELSE IF abs(c, x) < SmallThreshold(c)
  THEN LET x_sq == saturating_mul(c, x, x)
       IN  Pair(x, saturating_add(c, one(c), shr(c, x_sq, 1)))
  ELSE LET Rotated(rot) == Pair(rot[2], rot[1])
       IN  Rotated(hyperbolic_rotation(c, hyperbolic_gain_inv(c), zero(c), x))

sinh(c, x) == sinh_cosh(c, x)[1]
cosh(c, x) == sinh_cosh(c, x)[2]

tanh(c, x) == LET Quotient(r) == div(c, r[1], r[2]) IN Quotient(sinh_cosh(c, x))

coth(c, x) ==
  IF x = zero(c) THEN max_value(c)
  ELSE LET Quotient(r) == div(c, r[2], r[1]) IN Quotient(sinh_cosh(c, x))

AtanhThreshold(c) == from_num(c, 3, 4)

\* The reduction with the denominator 1 - |x| in place of 1 - 0.5*|x|.
atanh_reduced_argument_unscaled(c, abs_x) ==
  LET numerator == sub(c, abs_x, half(c))
      denominator == sub(c, one(c), abs_x)
  IN  div(c, numerator, denominator)

\* The reduced argument (|x| - 0.5) / (1 - 0.5*|x|) of atanh_inner.
atanh_reduced_argument(c, abs_x) ==
  LET numerator == sub(c, abs_x, half(c))
      denominator == sub(c, one(c), saturating_mul(c, half(c), abs_x))
  IN  div(c, numerator, denominator)

\* depth counts the frames of the recursion still available.
RECURSIVE atanh_inner(_, _, _)
atanh_inner(c, x, depth) ==
  IF IsPanic(x) THEN Panic
  ELSE IF depth = 0 THEN Panic
  ELSE IF x = zero(c) THEN zero(c)
  ELSE IF IsPanic(abs(c, x)) THEN Panic
  ELSE IF abs(c, x) <= AtanhThreshold(c)
  THEN hyperbolic_vectoring(c, one(c), x, zero(c))[3]
  ELSE LET atanh_half == from_i64_frac(c, ATANH_HALF)
           sign == IF is_negative(c, x) THEN neg(c, one(c)) ELSE one(c)
           reduced == atanh_reduced_argument(c, abs(c, x))
           atanh_reduced == atanh_inner(c, reduced, depth - 1)
       IN  saturating_mul(c, sign, saturating_add(c, atanh_half, atanh_reduced))

asinh(c, x) ==
  IF x = zero(c) THEN zero(c)
  ELSE LET x_sq == saturating_mul(c, x, x)
           one_plus_x_sq == saturating_add(c, one(c), x_sq)
           sqrt_term == sqrt_value(c, one_plus_x_sq)
           a == div(c, x, sqrt_term)
       IN  atanh_inner(c, a, MaxDepth)

acosh(c, x) ==
  IF x < one(c) THEN DomainError("acosh", "value >= 1")
  ELSE IF x = one(c) THEN OkR(zero(c))
  ELSE LET x_sq == saturating_mul(c, x, x)
           x_sq_minus_one == saturating_sub(c, x_sq, one(c))
           sqrt_term == sqrt_value(c, x_sq_minus_one)
           a == div(c, sqrt_term, x)
       IN  OkR(atanh_inner(c, a, MaxDepth))

atanh(c, x) ==
  IF IsPanic(x) THEN PanicR
  ELSE IF x >= one(c) \/ x <= neg(c, one(c))
  THEN DomainError("atanh", "value in range (-1, 1)")
  ELSE OkR(atanh_inner(c, x, MaxDepth))

acoth(c, x) ==
  IF IsPanic(abs(c, x)) THEN PanicR
  ELSE IF abs(c, x) <= one(c) THEN DomainError("acoth", "|value| > 1")
  ELSE OkR(atanh_inner(c, div(c, one(c), x), MaxDepth))

(***************************************************************************)
(* ops::exponential                                                        *)
(***************************************************************************)
ExpMaxIterations == 128
LnMaxIterations == 128

\* while reduced > ln2 && iterations < max { reduced -= ln2; scale += scale; }
\* Returns <<reduced, scale_factor, iterations>>.
RECURSIVE exp_reduce_positive(_, _, _, _)
exp_reduce_positive(c, reduced, scale_factor, iterations) ==
  IF IsPanic(reduced) \/ IsPanic(scale_factor) THEN <<Panic, Panic, iterations>>
  ELSE IF reduced > ln_2(c) /\ iterations < ExpMaxIterations
       THEN exp_reduce_positive(c, sub(c, reduced, ln_2(c)),
                                add(c, scale_factor, scale_factor), iterations + 1)
       ELSE <<reduced, scale_factor, iterations>>

\* while reduced < -ln2 && iterations < max { reduced += ln2; scale >>= 1; }
RECURSIVE exp_reduce_negative(_, _, _, _)
exp_reduce_negative(c, reduced, scale_factor, iterations) ==
  IF IsPanic(reduced) \/ IsPanic(scale_factor) THEN <<Panic, Panic, iterations>>
  ELSE IF reduced < neg(c, ln_2(c)) /\ iterations < ExpMaxIterations
       THEN exp_reduce_negative(c, add(c, reduced, ln_2(c)),
                                shr(c, scale_factor, 1), iterations + 1)
       ELSE <<reduced, scale_factor, iterations>>

\* exp with the intermediate values of its reduction.
exp_parts(c, x) ==
  LET abs_x == abs(c, x)
      threshold == add(c, ln_2(c), ln_2(c))
      \* cosh + sinh
      Sum(h) == saturating_add(c, h[2], h[1])
      Reduced(red) ==
        [reducing |-> TRUE, reduced |-> red[1], scale_factor |-> red[2],
         iterations |-> red[3],
         result |-> saturating_mul(c, red[2], Sum(sinh_cosh(c, red[1])))]
  IN  IF IsPanic(x) THEN [reducing |-> FALSE, reduced |-> 0, scale_factor |-> 0,
                          iterations |-> 0, result |-> Panic]
      ELSE IF x = zero(c) THEN [reducing |-> FALSE, reduced |-> x, scale_factor |-> one(c),
                                iterations |-> 0, result |-> one(c)]
      ELSE IF IsPanic(abs_x) \/ IsPanic(threshold)
      THEN [reducing |-> FALSE, reduced |-> 0, scale_factor |-> 0,
            iterations |-> 0, result |-> Panic]
      ELSE IF abs_x > threshold
      THEN IF is_positive(c, x) THEN Reduced(exp_reduce_positive(c, x, one(c), 0))
           ELSE Reduced(exp_reduce_negative(c, x, one(c), 0))
      ELSE [reducing |-> FALSE, reduced |-> x, scale_factor |-> one(c),
            iterations |-> 0, result |-> Sum(sinh_cosh(c, x))]

exp(c, x) == exp_parts(c, x).result

\* while normalized > two && iterations < max { normalized >>= 1; k_ln2 += ln2; }
\* Returns <<normalized, k_ln2, iterations>>.
RECURSIVE ln_halve(_, _, _, _)
ln_halve(c, normalized, k_ln2, iterations) ==
  IF IsPanic(normalized) \/ IsPanic(k_ln2) THEN <<Panic, Panic, iterations>>
  ELSE IF normalized > two(c) /\ iterations < LnMaxIterations
       THEN ln_halve(c, shr(c, normalized, 1), add(c, k_ln2, ln_2(c)), iterations + 1)
       ELSE <<normalized, k_ln2, iterations>>

\* The doubling loop without its `k_ln2 -= ln2`.
RECURSIVE ln_double_no_offset(_, _, _, _)
ln_double_no_offset(c, normalized, k_ln2, iterations) ==
  IF IsPanic(normalized) \/ IsPanic(k_ln2) THEN <<Panic, Panic, iterations>>
  ELSE IF normalized < half(c) /\ iterations < LnMaxIterations
       THEN ln_double_no_offset(c, add(c, normalized, normalized), k_ln2, iterations + 1)
       ELSE <<normalized, k_ln2, iterations>>

\* while normalized < half && iterations < max { normalized += normalized; k_ln2 -= ln2; }
RECURSIVE ln_double(_, _, _, _)
ln_double(c, normalized, k_ln2, iterations) ==
  IF IsPanic(normalized) \/ IsPanic(k_ln2) THEN <<Panic, Panic, iterations>>
  ELSE IF normalized < half(c) /\ iterations < LnMaxIterations
       THEN ln_double(c, add(c, normalized, normalized), sub(c, k_ln2, ln_2(c)),
                      iterations + 1)
       ELSE <<normalized, k_ln2, iterations>>

\* The normalization loops of ln: <<normalized, k_ln2, iterations>>.
ln_normalize(c, x) ==
  LET Double(h) == ln_double(c, h[1], h[2], h[3])
  IN  Double(ln_halve(c, x, zero(c), 0))

ln(c, x) ==
  IF x <= zero(c) THEN DomainError("ln", "positive value")
  ELSE IF x = one(c) THEN OkR(zero(c))
  ELSE LET \* .unwrap_or(zero)
           UnwrapOrZero(r) == IF IsOk(r) THEN r.v ELSE IF IsErr(r) THEN zero(c) ELSE Panic
           \* ln_normalized + k_ln2 with ln_normalized = atanh_val + atanh_val
           Total(atanh_val, k_ln2) == OkR(add(c, add(c, atanh_val, atanh_val), k_ln2))
           \* a = (normalized - 1) / (normalized + 1)
           Normalized(normalized, k_ln2) ==
             Total(UnwrapOrZero(atanh(c, div(c, sub(c, normalized, one(c)),
                                                add(c, normalized, one(c))))), k_ln2)
           Loops(n) == Normalized(n[1], n[2])
       IN  Loops(ln_normalize(c, x))

log2(c, x) ==
  LET Scale(ln_x) == MapR(ln_x, div(c, ln_x.v, ln_2(c))) IN Scale(ln(c, x))

log10(c, x) ==
  LET Scale(ln_x) == MapR(ln_x, div(c, ln_x.v, ln_10(c))) IN Scale(ln(c, x))

pow2(c, x) == exp(c, saturating_mul(c, x, ln_2(c)))

(***************************************************************************)
(* bounded                                                                 *)
(***************************************************************************)
\* Option<Self>: <<"Some", value>> or <<"None", 0>>.
Some(v) == <<"Some", v>>
None == <<"None", 0>>
IsSome(o) == o[1] = "Some"
get(o) == o[2]

UnitInterval_new(c, value) ==
  IF value >= neg(c, one(c)) /\ value <= one(c) THEN Some(value) ELSE None

\* The closed-interval test of UnitInterval::new in place of the open one.
OpenUnitInterval_new_closed(c, value) ==
  IF value >= neg(c, one(c)) /\ value <= one(c) THEN Some(value) ELSE None

OpenUnitInterval_new(c, value) ==
  IF value > neg(c, one(c)) /\ value < one(c) THEN Some(value) ELSE None

AtLeastOne_new(c, value) == IF value >= one(c) THEN Some(value) ELSE None

NonNegative_one_plus_square(c, x) ==
  LET x_sq == saturating_mul(c, x, x) IN saturating_add(c, one(c), x_sq)

\* x is the value held by a UnitInterval
NonNegative_one_minus_square(c, x) ==
  LET x_sq == saturating_mul(c, x, x) IN saturating_sub(c, one(c), x_sq)

\* x is the value held by an AtLeastOne
NonNegative_square_minus_one(c, x) ==
  LET x_sq == saturating_mul(c, x, x) IN saturating_sub(c, x_sq, one(c))

OpenUnitInterval_from_div_by_sqrt_one_plus_square(c, x, sqrt_one_plus_x_sq) ==
  div(c, x, sqrt_one_plus_x_sq)

\* x is the value held by an AtLeastOne
OpenUnitInterval_from_sqrt_square_minus_one_div(c, sqrt_x_sq_minus_one, x) ==
  div(c, sqrt_x_sq_minus_one, x)

\* x is the value held by a NormalizedLnArg
OpenUnitInterval_from_normalized_ln_arg(c, x) ==
  LET x_minus_1 == sub(c, x, one(c))
      x_plus_1 == add(c, x, one(c))
  IN  div(c, x_minus_1, x_plus_1)

NormalizedLnArg_from_normalized(c, value) == value

(***************************************************************************)
(* The state machine: a caller of the crate.  It instantiates one type in  *)
(* one build, then repeatedly calls a public function or constructor with  *)
(* some argument and takes the outcome.                                    *)
(***************************************************************************)
CurCtx == Ctx(ty, build)

\* Arguments tried for a type: every bit pattern of an 8-bit type; for a
\* 16-bit type the extremes, a dense window around zero and a coarse grid;
\* for a 32-bit type a grid over the magnitudes up to WideSpan, with its
\* end points and the values around zero.
Inputs(c) ==
  IF c.W <= 8 THEN min_value(c) .. max_value(c)
  ELSE IF c.W > 16
  THEN {-WideSpan * one(c), WideSpan * one(c)} \cup (-64 .. 64)
       \cup {v \in {k * WideStride : k \in -((WideSpan * one(c)) \div WideStride)
                                             .. ((WideSpan * one(c)) \div WideStride)} :
               InRange(c, v)}
  ELSE {min_value(c), min_value(c) + 1, max_value(c) - 1, max_value(c)}
       \cup ((-SampleSpan * one(c)) .. (SampleSpan * one(c)))
       \cup {v \in {m * 32 * one(c) + d : m \in -15..15, d \in -1..1} : InRange(c, v)}

\* Arguments tried for each coordinate of atan2.
Atan2Inputs(c) ==
  {min_value(c), min_value(c) + 1, -two(c), -one(c) - 1, -one(c), -half(c), -1, 0,
   1, half(c), one(c), one(c) + 1, two(c), max_value(c) - 1, max_value(c)}

NoOut == [k |-> "none", v |-> 0, v2 |-> 0, function |-> "", expected |-> ""]

NoTr == [red1 |-> 0, red2 |-> 0, negate |-> FALSE, reducing |-> FALSE,
         reduced |-> 0, scale_factor |-> 0, iterations |-> 0]

\* Option and plain-value outcomes of the bounded constructors.
OptR(o) ==
  IF IsSome(o) THEN [k |-> "some", v |-> get(o), v2 |-> 0, function |-> "", expected |-> ""]
  ELSE [k |-> "none", v |-> 0, v2 |-> 0, function |-> "", expected |-> ""]

Init ==
  /\ ty \in Types
  /\ build \in Builds
  /\ pc = "idle"
  /\ fn = ""
  /\ arg = 0
  /\ arg2 = 0
  /\ out = NoOut
  /\ tr = NoTr

\* A call of the function named f with argument x returning r.
Returns(f, x, y, r, t) ==
  /\ pc' = "done"
  /\ fn' = f
  /\ arg' = x
  /\ arg2' = y
  /\ out' = r
  /\ tr' = t
  /\ UNCHANGED <<ty, build>>

Call_sin_cos ==
  /\ pc = "idle"
  /\ \E x \in Inputs(CurCtx) :
       LET Traced(p) ==
             Returns("sin_cos", x, 0, OkPair(<<p.sin, p.cos>>),
                     [NoTr EXCEPT !.red1 = p.red1, !.red2 = p.red2,
                                  !.negate = p.negate])
       IN  Traced(sin_cos_parts(CurCtx, x))

Call_sin ==
  /\ pc = "idle"
  /\ \E x \in Inputs(CurCtx) : Returns("sin", x, 0, OkR(sin(CurCtx, x)), NoTr)

Call_cos ==
  /\ pc = "idle"
  /\ \E x \in Inputs(CurCtx) : Returns("cos", x, 0, OkR(cos(CurCtx, x)), NoTr)

Call_tan ==
  /\ pc = "idle"
  /\ \E x \in Inputs(CurCtx) : Returns("tan", x, 0, OkR(tan(CurCtx, x)), NoTr)

Call_asin ==
  /\ pc = "idle"
  /\ \E x \in Inputs(CurCtx) : Returns("asin", x, 0, asin(CurCtx, x), NoTr)

Call_acos ==
  /\ pc = "idle"
  /\ \E x \in Inputs(CurCtx) : Returns("acos", x, 0, acos(CurCtx, x), NoTr)

Call_atan ==
  /\ pc = "idle"
  /\ \E x \in Inputs(CurCtx) : Returns("atan", x, 0, OkR(atan(CurCtx, x)), NoTr)

Call_atan2 ==
  /\ pc = "idle"
  /\ \E y \in Atan2Inputs(CurCtx) : \E x \in Atan2Inputs(CurCtx) :
       Returns("atan2", y, x, OkR(atan2(CurCtx, y, x)), NoTr)

Call_sinh_cosh ==
  /\ pc = "idle"
  /\ \E x \in Inputs(CurCtx) :
       Returns("sinh_cosh", x, 0, OkPair(sinh_cosh(CurCtx, x)), NoTr)

Call_sinh ==
  /\ pc = "idle"
  /\ \E x \in Inputs(CurCtx) : Returns("sinh", x, 0, OkR(sinh(CurCtx, x)), NoTr)

Call_cosh ==
  /\ pc = "idle"
  /\ \E x \in Inputs(CurCtx) : Returns("cosh", x, 0, OkR(cosh(CurCtx, x)), NoTr)

Call_tanh ==
  /\ pc = "idle"
  /\ \E x \in Inputs(CurCtx) : Returns("tanh", x, 0, OkR(tanh(CurCtx, x)), NoTr)

Call_coth ==
  /\ pc = "idle"
  /\ \E x \in Inputs(CurCtx) : Returns("coth", x, 0, OkR(coth(CurCtx, x)), NoTr)

Call_asinh ==
  /\ pc = "idle"
  /\ \E x \in Inputs(CurCtx) : Returns("asinh", x, 0, OkR(asinh(CurCtx, x)), NoTr)

Call_acosh ==
  /\ pc = "idle"
  /\ \E x \in Inputs(CurCtx) : Returns("acosh", x, 0, acosh(CurCtx, x), NoTr)

Call_atanh ==
  /\ pc = "idle"
  /\ \E x \in Inputs(CurCtx) : Returns("atanh", x, 0, atanh(CurCtx, x), NoTr)

Call_acoth ==
  /\ pc = "idle"
  /\ \E x \in Inputs(CurCtx) : Returns("acoth", x, 0, acoth(CurCtx, x), NoTr)

Call_exp ==
  /\ pc = "idle"
  /\ \E x \in Inputs(CurCtx) :
       LET Traced(p) ==
             Returns("exp", x, 0, OkR(p.result),
                     [NoTr EXCEPT !.reducing = p.reducing, !.reduced = p.reduced,
                                  !.scale_factor = p.scale_factor,
                                  !.iterations = p.iterations])
       IN  Traced(exp_parts(CurCtx, x))

Call_pow2 ==
  /\ pc = "idle"
  /\ \E x \in Inputs(CurCtx) :
       LET Traced(p) ==
             Returns("pow2", x, 0, OkR(pow2(CurCtx, x)),
                     [NoTr EXCEPT !.reducing = p.reducing, !.reduced = p.reduced,
                                  !.scale_factor = p.scale_factor,
                                  !.iterations = p.iterations])
       IN  Traced(exp_parts(CurCtx, saturating_mul(CurCtx, x, ln_2(CurCtx))))

Call_ln ==
  /\ pc = "idle"
  /\ \E x \in Inputs(CurCtx) : Returns("ln", x, 0, ln(CurCtx, x), NoTr)

Call_log2 ==
  /\ pc = "idle"
  /\ \E x \in Inputs(CurCtx) : Returns("log2", x, 0, log2(CurCtx, x), NoTr)

Call_log10 ==
  /\ pc = "idle"
  /\ \E x \in Inputs(CurCtx) : Returns("log10", x, 0, log10(CurCtx, x), NoTr)

Call_sqrt ==
  /\ pc = "idle"
  /\ \E x \in Inputs(CurCtx) : Returns("sqrt", x, 0, sqrt(CurCtx, x), NoTr)

\* Constructors of the bounded types.
New_NonNegative ==
  /\ pc = "idle"
  /\ \E x \in Inputs(CurCtx) :
       Returns("NonNegative::new", x, 0, OptR(NonNegative_new(CurCtx, x)), NoTr)

New_UnitInterval ==
  /\ pc = "idle"
  /\ \E x \in Inputs(CurCtx) :
       Returns("UnitInterval::new", x, 0, OptR(UnitInterval_new(CurCtx, x)), NoTr)

New_OpenUnitInterval ==
  /\ pc = "idle"
  /\ \E x \in Inputs(CurCtx) :
       Returns("OpenUnitInterval::new", x, 0,
               OptR(OpenUnitInterval_new(CurCtx, x)), NoTr)

New_AtLeastOne ==
  /\ pc = "idle"
  /\ \E x \in Inputs(CurCtx) :
       Returns("AtLeastOne::new", x, 0, OptR(AtLeastOne_new(CurCtx, x)), NoTr)

Make_one_plus_square ==
  /\ pc = "idle"
  /\ \E x \in Inputs(CurCtx) :
       Returns("NonNegative::one_plus_square", x, 0,
               OkR(NonNegative_one_plus_square(CurCtx, x)), NoTr)

\* The argument is a UnitInterval, so only values its constructor accepts.
Make_one_minus_square ==
  /\ pc = "idle"
  /\ \E x \in Inputs(CurCtx) :
       /\ IsSome(UnitInterval_new(CurCtx, x))
       /\ Returns("NonNegative::one_minus_square", x, 0,
                  OkR(NonNegative_one_minus_square(CurCtx,
                        get(UnitInterval_new(CurCtx, x)))), NoTr)

\* The argument is an AtLeastOne, so only values its constructor accepts.
Make_square_minus_one ==
  /\ pc = "idle"
  /\ \E x \in Inputs(CurCtx) :
       /\ IsSome(AtLeastOne_new(CurCtx, x))
       /\ Returns("NonNegative::square_minus_one", x, 0,
                  OkR(NonNegative_square_minus_one(CurCtx,
                        get(AtLeastOne_new(CurCtx, x)))), NoTr)

\* x / sqrt(1 + x^2), the square root computed first by sqrt_nonneg.
Make_from_div_by_sqrt_one_plus_square ==
  /\ pc = "idle"
  /\ \E x \in Inputs(CurCtx) :
       LET s == sqrt_nonneg(CurCtx, NonNegative_one_plus_square(CurCtx, x))
       IN  Returns("OpenUnitInterval::from_div_by_sqrt_one_plus_square", x, 0,
                   OkR(OpenUnitInterval_from_div_by_sqrt_one_plus_square(CurCtx, x, s)),
                   NoTr)

\* sqrt(x^2 - 1) / x for an AtLeastOne x.
Make_from_sqrt_square_minus_one_div ==
  /\ pc = "idle"
  /\ \E x \in Inputs(CurCtx) :
       /\ IsSome(AtLeastOne_new(CurCtx, x))
       /\ LET s == sqrt_nonneg(CurCtx, NonNegative_square_minus_one(CurCtx, x))
          IN  Returns("OpenUnitInterval::from_sqrt_square_minus_one_div", x, 0,
                      OkR(OpenUnitInterval_from_sqrt_square_minus_one_div(CurCtx, s, x)),
                      NoTr)

\* NormalizedLnArg::from_normalized on the result of ln's normalization
\* loops for a positive x.
Make_from_normalized ==
  /\ pc = "idle"
  /\ \E x \in Inputs(CurCtx) :
       /\ x > zero(CurCtx)
       /\ Returns("NormalizedLnArg::from_normalized", x, 0,
                  OkR(NormalizedLnArg_from_normalized(CurCtx,
                        ln_normalize(CurCtx, x)[1])), NoTr)

Make_from_normalized_ln_arg ==
  /\ pc = "idle"
  /\ \E x \in Inputs(CurCtx) :
       /\ x > zero(CurCtx)
       /\ LET n == NormalizedLnArg_from_normalized(CurCtx, ln_normalize(CurCtx, x)[1])
          IN  Returns("OpenUnitInterval::from_normalized_ln_arg", x, 0,
                      OkR(OpenUnitInterval_from_normalized_ln_arg(CurCtx, n)), NoTr)

\* The caller takes the outcome and is ready for the next call.
Return ==
  /\ pc = "done"
  /\ pc' = "idle"
  /\ fn' = ""
  /\ arg' = 0
  /\ arg2' = 0
  /\ out' = NoOut
  /\ tr' = NoTr
  /\ UNCHANGED <<ty, build>>

Next ==
  \/ Call_sin_cos
  \/ Call_sin
  \/ Call_cos
  \/ Call_tan
  \/ Call_asin
  \/ Call_acos
  \/ Call_atan
  \/ Call_atan2
  \/ Call_sinh_cosh
  \/ Call_sinh
  \/ Call_cosh
  \/ Call_tanh
  \/ Call_coth
  \/ Call_asinh
  \/ Call_acosh
  \/ Call_atanh
  \/ Call_acoth
  \/ Call_exp
  \/ Call_pow2
  \/ Call_ln
  \/ Call_log2
  \/ Call_log10
  \/ Call_sqrt
  \/ New_NonNegative
  \/ New_UnitInterval
  \/ New_OpenUnitInterval
  \/ New_AtLeastOne
  \/ Make_one_plus_square
  \/ Make_one_minus_square
  \/ Make_square_minus_one
  \/ Make_from_div_by_sqrt_one_plus_square
  \/ Make_from_sqrt_square_minus_one_div
  \/ Make_from_normalized
  \/ Make_from_normalized_ln_arg
  \/ Return

Spec == Init /\ [][Next]_vars

(***************************************************************************)
(* The same caller on I16F16, calling sin_cos only.                        *)
(***************************************************************************)
InitI16F16 ==
  /\ ty = I16F16
  /\ build \in Builds
  /\ pc = "idle"
  /\ fn = ""
  /\ arg = 0
  /\ arg2 = 0
  /\ out = NoOut
  /\ tr = NoTr

NextI16F16 ==
  \/ Call_sin_cos
  \/ Return

SpecI16F16 == InitI16F16 /\ [][NextI16F16]_vars


(***************************************************************************)
(* The kernels step by step.  Each thread of a program calls a kernel,     *)
(* runs its loop one micro-step at a time with loop variables of its own,  *)
(* and takes the result; the threads share nothing but the constant        *)
(* tables.  pc, fn, arg, out and tr hold one entry per thread.             *)
(***************************************************************************)
Threads == DOMAIN pc

Kernels ==
  {"circular_rotation", "circular_vectoring", "hyperbolic_rotation",
   "hyperbolic_vectoring"}

\* FixedI8<U0>, FixedI16<U13>, FixedI32<U16>, FixedI32<U24>, FixedI32<U29>,
\* FixedI64<U42>, FixedI64<U61>, FixedI128<U64> and FixedI128<U125>: more
\* of the instantiations admitted by impl_cordic_generic!, at the ends of
\* the ranges of the iteration budgets.
WiderTypes ==
  {[W |-> 8, F |-> 0], [W |-> 16, F |-> 13], I16F16, [W |-> 32, F |-> 24],
   [W |-> 32, F |-> 29], [W |-> 64, F |-> 42], [W |-> 64, F |-> 61],
   [W |-> 128, F |-> 64], [W |-> 128, F |-> 125]}

\* The coordinates x, y, z are evaluated for the types whose values and
\* intermediate sums fit the integers at hand; for a wider type they are
\* held at zero, and only the loop counters, the shift amounts and the
\* table indices are followed, which no coordinate influences.
Tracked(c) == c.W <= 16

\* The triples (x, y, z) a kernel is called with: the calls the crate's
\* functions make, and the corners of the type.
KernelInputs(c) ==
  IF ~Tracked(c) THEN {<<0, 0, 0>>}
  ELSE IF Cardinality(Threads) > 1
  THEN {<<circular_gain_inv(c), zero(c), half(c)>>, <<one(c), -half(c), zero(c)>>}
  ELSE {<<circular_gain_inv(c), zero(c), z>> :
          z \in {-frac_pi_2(c), -one(c), -1, 0, 1, half(c), frac_pi_2(c)}}
       \cup {<<hyperbolic_gain_inv(c), zero(c), z>> : z \in {-one(c), -1, 0, half(c)}}
       \cup {<<one(c), y, zero(c)>> :
               y \in {-one(c), -half(c), -1, 0, 1, half(c), one(c) - 1, one(c)}}
       \cup {<<x, y, z>> : x \in {min_value(c), max_value(c)},
                           y \in {min_value(c), 0, max_value(c)},
                           z \in {min_value(c), 0, max_value(c)}}

\* The loop variables of a kernel at its first micro-step: i, the number
\* of micro-steps done, repeated, the coordinates, and the shift amounts
\* and table indices used so far.
LoopEntry(k, xyz) ==
  [i |-> IF k \in {"circular_rotation", "circular_vectoring"} THEN 0 ELSE 1,
   iteration_count |-> 0, repeated |-> FALSE,
   x |-> xyz[1], y |-> xyz[2], z |-> xyz[3], shifts |-> <<>>, indices |-> <<>>]

\* `for i in 0..iterations` and `while iteration_count < max_iterations && i < 64`.
LoopContinues(c, k, s) ==
  CASE k \in {"circular_rotation", "circular_vectoring"} -> s.i < CircularIterations(c)
    [] k = "hyperbolic_rotation" ->
         s.iteration_count < HyperbolicRotationIterations(c) /\ s.i < 64
    [] k = "hyperbolic_vectoring" ->
         s.iteration_count < HyperbolicVectoringIterations(c) /\ s.i < 64

\* The table entry as a value of the type.
TableAngle(c, table, index) ==
  IF Tracked(c) THEN from_i64_frac(c, table_lookup(table, index))
  ELSE IF index \in 0..63 THEN 0 ELSE Panic

\* x >> i and y >> i of an untracked type: only the shift amount matters.
ShiftOnly(c, i) ==
  IF ShiftAmountOk(c, i) \/ ~c.debug THEN <<0, 0>> ELSE <<Panic, Panic>>

\* The micro-step with its loop counter i kept in a static that the
\* threads share.
MicroStep_shared_counter(t, index, xy, z, next_i, rep) ==
  /\ tr' = [u \in Threads |->
              IF u = t
              THEN [tr[t] EXCEPT !.i = next_i, !.iteration_count = @ + 1,
                                 !.repeated = rep, !.x = xy[1], !.y = xy[2], !.z = z,
                                 !.shifts = Append(@, tr[t].i),
                                 !.indices = Append(@, index)]
              ELSE [tr[u] EXCEPT !.i = next_i]]
  /\ UNCHANGED <<ty, build, pc, fn, arg, arg2, out>>

\* The state after thread t's micro-step with shift amount s.i and table
\* index `index` produced the coordinates xy and z: the loop variables are
\* assigned, or the thread has panicked.
MicroStep(t, index, xy, z, next_i, rep) ==
  LET s == tr[t]
      shifts == Append(s.shifts, s.i)
      indices == Append(s.indices, index)
  IN  /\ IF IsPanic(xy[1]) \/ IsPanic(xy[2]) \/ IsPanic(z)
         THEN /\ pc' = [pc EXCEPT ![t] = "done"]
              /\ out' = [out EXCEPT ![t] = PanicR]
              /\ tr' = [tr EXCEPT ![t].shifts = shifts, ![t].indices = indices]
         ELSE /\ tr' = [tr EXCEPT ![t] =
                          [i |-> next_i, iteration_count |-> s.iteration_count + 1,
                           repeated |-> rep, x |-> xy[1], y |-> xy[2], z |-> z,
                           shifts |-> shifts, indices |-> indices]]
              /\ UNCHANGED <<pc, out>>
      /\ UNCHANGED <<ty, build, fn, arg, arg2>>

InitKernel ==
  /\ ty \in Types \cup WiderTypes
  /\ build \in Builds
  /\ pc = [t \in {1} |-> "idle"]
  /\ fn = [t \in {1} |-> ""]
  /\ arg = [t \in {1} |-> <<0, 0, 0>>]
  /\ arg2 = 0
  /\ out = [t \in {1} |-> NoOut]
  /\ tr = [t \in {1} |-> LoopEntry("", <<0, 0, 0>>)]

\* Two threads of one program.
InitThreads ==
  /\ ty \in {I3F5, I4F4}
  /\ build \in Builds
  /\ pc = [t \in {1, 2} |-> "idle"]
  /\ fn = [t \in {1, 2} |-> ""]
  /\ arg = [t \in {1, 2} |-> <<0, 0, 0>>]
  /\ arg2 = 0
  /\ out = [t \in {1, 2} |-> NoOut]
  /\ tr = [t \in {1, 2} |-> LoopEntry("", <<0, 0, 0>>)]

\* A thread calls a kernel: the loop variables are initialized.
KernelCall ==
  \E t \in Threads : \E k \in Kernels : \E xyz \in KernelInputs(CurCtx) :
    /\ pc[t] = "idle"
    /\ pc' = [pc EXCEPT ![t] = "loop"]
    /\ fn' = [fn EXCEPT ![t] = k]
    /\ arg' = [arg EXCEPT ![t] = xyz]
    /\ tr' = [tr EXCEPT ![t] = LoopEntry(k, xyz)]
    /\ UNCHANGED <<ty, build, arg2, out>>

Step_circular_rotation ==
  \E t \in Threads :
    /\ pc[t] = "loop"
    /\ fn[t] = "circular_rotation"
    /\ LoopContinues(CurCtx, fn[t], tr[t])
    /\ LET c == CurCtx
           s == tr[t]
           angle == TableAngle(c, ATAN_TABLE, s.i)
       IN  IF ~Tracked(c) THEN MicroStep(t, s.i, ShiftOnly(c, s.i), angle, s.i + 1, FALSE)
           ELSE IF s.z >= zero(c)
           THEN MicroStep(t, s.i, StepSubAdd(c, s.x, s.y, s.i), sub(c, s.z, angle),
                          s.i + 1, FALSE)
           ELSE MicroStep(t, s.i, StepAddSub(c, s.x, s.y, s.i), add(c, s.z, angle),
                          s.i + 1, FALSE)

Step_circular_vectoring ==
  \E t \in Threads :
    /\ pc[t] = "loop"
    /\ fn[t] = "circular_vectoring"
    /\ LoopContinues(CurCtx, fn[t], tr[t])
    /\ LET c == CurCtx
           s == tr[t]
           angle == TableAngle(c, ATAN_TABLE, s.i)
       IN  IF ~Tracked(c) THEN MicroStep(t, s.i, ShiftOnly(c, s.i), angle, s.i + 1, FALSE)
           ELSE IF s.y < zero(c)
           THEN MicroStep(t, s.i, StepSubAdd(c, s.x, s.y, s.i), sub(c, s.z, angle),
                          s.i + 1, FALSE)
           ELSE MicroStep(t, s.i, StepAddSub(c, s.x, s.y, s.i), add(c, s.z, angle),
                          s.i + 1, FALSE)

Step_hyperbolic_rotation ==
  \E t \in Threads :
    /\ pc[t] = "loop"
    /\ fn[t] = "hyperbolic_rotation"
    /\ LoopContinues(CurCtx, fn[t], tr[t])
    /\ LET c == CurCtx
           s == tr[t]
           table_index == TableIndex(s.i)
           angle == TableAngle(c, ATANH_TABLE, table_index)
           rep == needs_repeat(s.i) /\ ~s.repeated
           next_i == IF rep THEN s.i ELSE s.i + 1
       IN  IF ~Tracked(c)
           THEN MicroStep(t, table_index, ShiftOnly(c, s.i), angle, next_i, rep)
           ELSE IF s.z >= zero(c)
           THEN MicroStep(t, table_index, StepAddAdd(c, s.x, s.y, s.i),
                          sub(c, s.z, angle), next_i, rep)
           ELSE MicroStep(t, table_index, StepSubSub(c, s.x, s.y, s.i),
                          add(c, s.z, angle), next_i, rep)

Step_hyperbolic_vectoring ==
  \E t \in Threads :
    /\ pc[t] = "loop"
    /\ fn[t] = "hyperbolic_vectoring"
    /\ LoopContinues(CurCtx, fn[t], tr[t])
    /\ LET c == CurCtx
           s == tr[t]
           table_index == TableIndex(s.i)
           angle == TableAngle(c, ATANH_TABLE, table_index)
           rep == needs_repeat(s.i) /\ ~s.repeated
           next_i == IF rep THEN s.i ELSE s.i + 1
       IN  IF ~Tracked(c)
           THEN MicroStep(t, table_index, ShiftOnly(c, s.i), angle, next_i, rep)
           ELSE IF s.y < zero(c)
           THEN MicroStep(t, table_index, StepAddAdd(c, s.x, s.y, s.i),
                          sub(c, s.z, angle), next_i, rep)
           ELSE MicroStep(t, table_index, StepSubSub(c, s.x, s.y, s.i),
                          add(c, s.z, angle), next_i, rep)

\* The loop is over: the kernel returns (x, y, z).
KernelReturn ==
  \E t \in Threads :
    /\ pc[t] = "loop"
    /\ ~LoopContinues(CurCtx, fn[t], tr[t])
    /\ pc' = [pc EXCEPT ![t] = "done"]
    /\ out' = [out EXCEPT ![t] = [NoOut EXCEPT !.k = "ok",
                                                !.v = <<tr[t].x, tr[t].y, tr[t].z>>]]
    /\ UNCHANGED <<ty, build, fn, arg, arg2, tr>>

\* The thread takes the result and is ready for its next call.
KernelDone ==
  \E t \in Threads :
    /\ pc[t] = "done"
    /\ pc' = [pc EXCEPT ![t] = "idle"]
    /\ fn' = [fn EXCEPT ![t] = ""]
    /\ arg' = [arg EXCEPT ![t] = <<0, 0, 0>>]
    /\ out' = [out EXCEPT ![t] = NoOut]
    /\ tr' = [tr EXCEPT ![t] = LoopEntry("", <<0, 0, 0>>)]
    /\ UNCHANGED <<ty, build, arg2>>

NextKernel ==
  \/ KernelCall
  \/ Step_circular_rotation
  \/ Step_circular_vectoring
  \/ Step_hyperbolic_rotation
  \/ Step_hyperbolic_vectoring
  \/ KernelReturn
  \/ KernelDone

SpecKernel == InitKernel /\ [][NextKernel]_vars

SpecThreads == InitThreads /\ [][NextKernel]_vars

(***************************************************************************)
(* The conversions from I1F63 and I2F62 for every supported type.  A       *)
(* value of a type of any width is its bit pattern sign-extended to nine   *)
(* 16-bit limbs, limb 0 the least significant.                             *)
(***************************************************************************)
\* impl_cordic_generic!: FixedI8 with at most 5 fractional bits, FixedI16
\* with at most 13, FixedI32 29, FixedI64 61 and FixedI128 125.
SupportedTypes ==
  {t \in [W : {8, 16, 32, 64, 128}, F : 0..125] : t.F <= t.W - 3}

\* Limb k of the i64 bits, as an integer of unbounded width, shifted right
\* arithmetically by shift, or left by -shift when shift is negative.
ShiftedLimb(bits, shift, k) ==
  IF shift + 16 * k >= 0 THEN ShrLow16(bits, shift + 16 * k)
  ELSE IF shift + 16 * k <= -16 THEN 0
  ELSE (Limb(bits, 0) * Pow2(-(shift + 16 * k))) % 65536

\* `raw as $bits_type` followed by from_bits: the low t.W bits of raw, read
\* as a signed pattern of that width.
from_bits(t, raw) ==
  LET low8 == raw[0] % 256
      negative == IF t.W = 8 THEN low8 >= 128 ELSE raw[(t.W \div 16) - 1] >= 32768
  IN  [k \in 0..8 |->
         IF 16 * (k + 1) <= t.W THEN raw[k]
         ELSE IF 16 * k < t.W THEN (IF negative THEN low8 + 65280 ELSE low8)
         ELSE IF negative THEN 65535 ELSE 0]

\* The conversion that takes an I1F63 pattern for an I2F62 one.
from_i64_frac_limbs_as_i2f62(t, bits) ==
  from_bits(t, [k \in 0..8 |-> ShiftedLimb(bits, 62 - t.F, k)])

\* from_i64_frac: (bits >> shift) as $bits_type, or (bits as $bits_type) << -shift.
from_i64_frac_limbs(t, bits) ==
  from_bits(t, [k \in 0..8 |-> ShiftedLimb(bits, 63 - t.F, k)])

from_i2f62_frac_limbs(t, bits) ==
  from_bits(t, [k \in 0..8 |-> ShiftedLimb(bits, 62 - t.F, k)])

\* The I1F63 and I2F62 patterns converted: every table entry, the gains and
\* thresholds, the powers of two of sqrt's epsilon, and the extreme and
\* negative patterns.
Patterns ==
  {ATAN_TABLE[n] : n \in 1..64} \cup {ATANH_TABLE[n] : n \in 1..64}
  \cup {CIRCULAR_GAIN_INV, HYPERBOLIC_GAIN_INV, ATANH_HALF, HYPERBOLIC_LIMIT_FRAC,
        ASIN_SQRT_THRESHOLD}
  \cup {OneShl(k) : k \in 0..62}
  \cup {<<0, 0, 0, 0>>, <<32767, 65535, 65535, 65535>>, <<32768, 0, 0, 0>>,
        <<65535, 65535, 65535, 65535>>, <<45753, 24120, 64580, 54314>>}

InitConversions ==
  /\ ty \in SupportedTypes
  /\ build = "release"
  /\ pc = "idle"
  /\ fn = ""
  /\ arg = <<0, 0, 0, 0>>
  /\ arg2 = 0
  /\ out = NoOut
  /\ tr = NoTr

Convert_from_i64_frac ==
  /\ pc = "idle"
  /\ \E bits \in Patterns :
       Returns("from_i64_frac", bits, 0,
               [NoOut EXCEPT !.k = "ok", !.v = from_i64_frac_limbs(ty, bits)], NoTr)

Convert_from_i2f62_frac ==
  /\ pc = "idle"
  /\ \E bits \in Patterns :
       Returns("from_i2f62_frac", bits, 0,
               [NoOut EXCEPT !.k = "ok", !.v = from_i2f62_frac_limbs(ty, bits)], NoTr)

\* The caller takes the converted value.
ConversionDone ==
  /\ pc = "done"
  /\ pc' = "idle"
  /\ fn' = ""
  /\ arg' = <<0, 0, 0, 0>>
  /\ arg2' = 0
  /\ out' = NoOut
  /\ tr' = NoTr
  /\ UNCHANGED <<ty, build>>

NextConversions ==
  \/ Convert_from_i64_frac
  \/ Convert_from_i2f62_frac
  \/ ConversionDone

SpecConversions == InitConversions /\ [][NextConversions]_vars

(***************************************************************************)
(* sinh_cosh on the types whose resolution separates a first-order from a  *)
(* third-order polynomial: arguments up to 0.2 in magnitude, which covers  *)
(* the small-argument branch and the start of the rotation branch.         *)
(***************************************************************************)
SmallStride == 13

I3F13 == [W |-> 16, F |-> 13]

SmallInputs(c) ==
  {x \in -from_num(c, 1, 5) .. from_num(c, 1, 5) :
     c.W <= 16 \/ x % SmallStride = 0 \/ AbsInt(x) = from_num(c, 1, 10)}

InitSinhCosh ==
  /\ ty \in {I3F13, I16F16}
  /\ build \in Builds
  /\ pc = "idle"
  /\ fn = ""
  /\ arg = 0
  /\ arg2 = 0
  /\ out = NoOut
  /\ tr = NoTr

Call_sinh_cosh_small ==
  /\ pc = "idle"
  /\ \E x \in SmallInputs(CurCtx) :
       Returns("sinh_cosh", x, 0, OkPair(sinh_cosh(CurCtx, x)), NoTr)

NextSinhCosh ==
  \/ Call_sinh_cosh_small
  \/ Return

SpecSinhCosh == InitSinhCosh /\ [][NextSinhCosh]_vars

(***************************************************************************)
(* sqrt_nonneg with its divisions recorded, on types of every small       *)
(* number of fractional bits.                                              *)
(***************************************************************************)
SqrtTypes ==
  {[W |-> 8, F |-> 0], [W |-> 8, F |-> 1], [W |-> 8, F |-> 2], I4F4, I3F5,
   [W |-> 16, F |-> 0], I10F6, I3F13}

SqrtInputs(c) ==
  {x \in 0 .. max_value(c) : c.W <= 8 \/ x <= 64 \/ x % SmallStride = 0 \/ x >= max_value(c) - 64}

\* One division x.div(guess): the divisor and the exact quotient
\* (x * 2^F) / guess before it is narrowed to the type; a zero divisor has
\* no quotient.
Division(c, x, guess) ==
  [divisor |-> guess,
   quotient |-> IF guess = 0 THEN Panic ELSE TruncDiv(x * Pow2(c.F), guess)]

\* The divisions of the Newton loop from guess with n early-exit
\* iterations left before the final one, in order.
RECURSIVE sqrt_newton_divisions(_, _, _, _)
sqrt_newton_divisions(c, x, guess, n) ==
  IF IsPanic(guess) THEN <<>>
  ELSE LET new_guess ==
             saturating_mul(c, saturating_add(c, guess, div(c, x, guess)), half(c))
           Rest(diff) ==
             IF IsPanic(diff) \/ diff <= SqrtEpsilon(c) THEN <<>>
             ELSE sqrt_newton_divisions(c, x, new_guess, n - 1)
       IN  <<Division(c, x, guess)>> \o
             (IF n = 0 \/ IsPanic(new_guess) THEN <<>>
              ELSE IF new_guess > guess THEN Rest(sub(c, new_guess, guess))
              ELSE Rest(sub(c, guess, new_guess)))

\* [estimate |-> the divisions of the initial guess (x.div(g) for x > 1),
\*  newton |-> the divisions of the Newton loop].
sqrt_divisions(c, x) ==
  [estimate |->
     IF x > one(c)
     THEN <<Division(c, x, sqrt_estimate_loop(c, x, one(c),
                                              saturating_mul(c, two(c), two(c)), 0))>>
     ELSE <<>>,
   newton |->
     sqrt_newton_divisions(c, x, sqrt_initial_guess(c, x),
                           IF NewtonIterations(c) >= 1 THEN NewtonIterations(c) - 1 ELSE 0)]

InitSqrt ==
  /\ ty \in SqrtTypes
  /\ build \in Builds
  /\ pc = "idle"
  /\ fn = ""
  /\ arg = 0
  /\ arg2 = 0
  /\ out = NoOut
  /\ tr = [estimate |-> <<>>, newton |-> <<>>]

Call_sqrt_nonneg ==
  /\ pc = "idle"
  /\ \E x \in SqrtInputs(CurCtx) :
       Returns("sqrt_nonneg", x, 0, OkR(sqrt_nonneg(CurCtx, x)),
               IF x = zero(CurCtx) \/ x = one(CurCtx)
               THEN [estimate |-> <<>>, newton |-> <<>>]
               ELSE sqrt_divisions(CurCtx, x))

SqrtReturn ==
  /\ pc = "done"
  /\ pc' = "idle"
  /\ fn' = ""
  /\ arg' = 0
  /\ out' = NoOut
  /\ tr' = [estimate |-> <<>>, newton |-> <<>>]
  /\ UNCHANGED <<ty, build, arg2>>

NextSqrt ==
  \/ Call_sqrt_nonneg
  \/ SqrtReturn

SpecSqrt == InitSqrt /\ [][NextSqrt]_vars
(***************************************************************************)
(* Properties of the public functions                                      *)
(***************************************************************************)
PublicFunctions ==
  {"sin", "cos", "tan", "sin_cos", "asin", "acos", "atan", "atan2", "sinh", "cosh",
   "tanh", "coth", "sinh_cosh", "asinh", "acosh", "atanh", "acoth", "exp", "ln",
   "log2", "log10", "pow2", "sqrt"}

\* The call of f has returned (or panicked) and its outcome is in out.
Called(f) == pc = "done" /\ fn = f

\* The outcome is a DomainError exactly when bad holds and Ok otherwise.
ErrExactlyWhen(bad) == IF bad THEN out.k = "err" ELSE out.k = "ok"

\* C1: for every supported type, build and representable argument, each of
\* the 23 public functions returns a value or an Err and never panics or
\* aborts (no overflow of a non-saturating operation, no division by zero,
\* no unrepresentable quotient).
C1_NeverPanics ==
  (pc = "done" /\ fn \in PublicFunctions) => out.k \in {"ok", "err"}

\* C2: asin and acos return a DomainError exactly when x > 1 or x < -1,
\* atanh exactly when x >= 1 or x <= -1, acosh exactly when x < 1, and each
\* returns Ok for every other representable x.
C2_InverseDomainErrors ==
  LET c == CurCtx
  IN  /\ (Called("asin") \/ Called("acos")) =>
           ErrExactlyWhen(arg > one(c) \/ arg < -one(c))
      /\ Called("atanh") => ErrExactlyWhen(arg >= one(c) \/ arg <= -one(c))
      /\ Called("acosh") => ErrExactlyWhen(arg < one(c))

\* C3: acoth returns a DomainError exactly when |x| <= 1 and returns Ok for
\* every representable x with |x| > 1, the type's minimum value included.
C3_AcothDomainError ==
  Called("acoth") => ErrExactlyWhen(AbsInt(arg) <= one(CurCtx))

\* C4: ln, log2 and log10 return a DomainError exactly when x <= 0, sqrt
\* exactly when x < 0; every other representable x gives Ok, and an Ok
\* result of sqrt is never negative.
C4_LogSqrtDomainErrors ==
  /\ (Called("ln") \/ Called("log2") \/ Called("log10")) => ErrExactlyWhen(arg <= 0)
  /\ Called("sqrt") => /\ ErrExactlyWhen(arg < 0)
                       /\ out.k = "ok" => out.v >= 0

\* The description of the domain of each fallible public function.
ExpectedDomain(f) ==
  CASE f \in {"asin", "acos"} -> "value in range [-1, 1]"
    [] f = "acosh" -> "value >= 1"
    [] f = "atanh" -> "value in range (-1, 1)"
    [] f = "acoth" -> "|value| > 1"
    [] f \in {"ln", "log2", "log10"} -> "positive value"
    [] f = "sqrt" -> "non-negative value"
    [] OTHER -> ""

\* C5: a DomainError returned by a public function names in `function` the
\* public function that was called (acos reports "acos", log2 "log2", log10
\* "log10") and in `expected` the description of that function's domain.
C5_ErrorNamesCalledFunction ==
  (pc = "done" /\ fn \in PublicFunctions /\ out.k = "err") =>
    /\ out.function = fn
    /\ out.expected = ExpectedDomain(fn)

\* C6: coth(0) returns an error, and coth(x) returns Ok for every
\* representable x other than 0.
C6_CothZeroIsError ==
  Called("coth") => ErrExactlyWhen(arg = 0)

\* C7: for every representable angle sin_cos leaves the first reduction in
\* [-pi, pi], passes a value in [-pi/2, pi/2] to circular_rotation, and
\* negates both outputs exactly when pi was added or subtracted in the
\* second reduction.
C7_SinCosReduction ==
  Called("sin_cos") =>
    LET c == CurCtx
    IN  /\ -pi(c) <= tr.red1 /\ tr.red1 <= pi(c)
        /\ -frac_pi_2(c) <= tr.red2 /\ tr.red2 <= frac_pi_2(c)
        /\ tr.negate <=> (tr.red2 # tr.red1)

\* C8: exp and pow2 never wrap: when the power-of-two scale factor 2^k of
\* the result (k halvings or doublings of the argument reduction) exceeds
\* the type's range the result is the type's maximum, and when it falls
\* below the type's resolution the result is exactly zero.
C8_ExpSaturates ==
  (Called("exp") \/ Called("pow2")) =>
    LET c == CurCtx
    IN  /\ out.k = "ok"
        /\ (tr.reducing /\ arg > 0 /\ tr.iterations >= c.W - 1 - c.F)
             => out.v = max_value(c)
        /\ (tr.reducing /\ arg < 0 /\ tr.iterations > c.F) => out.v = 0

\* C9: a value obtained from any constructor of a bounded type satisfies
\* the type's predicate: NonNegative v >= 0, OpenUnitInterval -1 < v < 1,
\* NormalizedLnArg 0.5 <= v <= 2.
C9_ConstructorsEstablishPredicate ==
  LET c == CurCtx
      made == pc = "done" /\ out.k \in {"ok", "some"}
  IN  /\ (made /\ fn \in {"NonNegative::new", "NonNegative::one_plus_square",
                          "NonNegative::one_minus_square",
                          "NonNegative::square_minus_one"}) => out.v >= 0
      /\ (made /\ fn \in {"OpenUnitInterval::new",
                          "OpenUnitInterval::from_div_by_sqrt_one_plus_square",
                          "OpenUnitInterval::from_sqrt_square_minus_one_div",
                          "OpenUnitInterval::from_normalized_ln_arg"})
           => (-one(c) < out.v /\ out.v < one(c))
      /\ (made /\ fn = "NormalizedLnArg::from_normalized")
           => (half(c) <= out.v /\ out.v <= two(c))
      /\ (pc = "done" /\ fn \in {"NonNegative::one_plus_square",
                                 "NonNegative::one_minus_square",
                                 "NonNegative::square_minus_one",
                                 "OpenUnitInterval::from_div_by_sqrt_one_plus_square",
                                 "OpenUnitInterval::from_sqrt_square_minus_one_div",
                                 "OpenUnitInterval::from_normalized_ln_arg",
                                 "NormalizedLnArg::from_normalized"}) => out.k = "ok"

\* C10: NonNegative::new, UnitInterval::new, OpenUnitInterval::new and
\* AtLeastOne::new return Some exactly when v >= 0, -1 <= v <= 1,
\* -1 < v < 1 and v >= 1 respectively, None otherwise, and get() on the
\* result returns v unchanged.
C10_NewReturnsSomeIffPredicate ==
  LET c == CurCtx
      SomeExactlyWhen(p) == IF p THEN out.k = "some" /\ out.v = arg ELSE out.k = "none"
  IN  /\ Called("NonNegative::new") => SomeExactlyWhen(arg >= 0)
      /\ Called("UnitInterval::new") => SomeExactlyWhen(-one(c) <= arg /\ arg <= one(c))
      /\ Called("OpenUnitInterval::new") => SomeExactlyWhen(-one(c) < arg /\ arg < one(c))
      /\ Called("AtLeastOne::new") => SomeExactlyWhen(arg >= one(c))

\* C10 witness: OpenUnitInterval::new accepted a non-zero value, and both
\* endpoints of the closed interval are told apart from the open one.
C10_Witness ==
  /\ Called("OpenUnitInterval::new")
  /\ out.k = "some"
  /\ out.v = arg
  /\ arg = one(CurCtx) - 1


\* The recursive calls atanh_inner makes from x before it takes the direct
\* branch, or -1 when n calls do not reach it.
RECURSIVE AtanhCalls(_, _, _)
AtanhCalls(c, x, n) ==
  IF IsPanic(x) \/ n = 0 THEN -1
  ELSE IF AbsInt(x) <= AtanhThreshold(c) THEN 0
  ELSE LET Count(rest) == IF rest < 0 THEN -1 ELSE rest + 1
       IN  Count(AtanhCalls(c, atanh_reduced_argument(c, AbsInt(x)), n - 1))

InAtanhReduction(c, x) == AbsInt(x) > AtanhThreshold(c) /\ AbsInt(x) < one(c)

LnLoopsNormalize(c, x) ==
  LET Exit(halved, n) ==
        /\ ~IsPanic(n[1]) /\ ~IsPanic(n[2])
        /\ n[3] < LnMaxIterations
        /\ n[1] >= half(c) /\ n[1] <= two(c)
        /\ n[2] = (halved - (n[3] - halved)) * ln_2(c)
      Argument(a) ==
        /\ ~IsPanic(a)
        /\ a > -one(c) /\ a < one(c)
        /\ ~IsErr(atanh(c, a))
  IN  /\ Exit(ln_halve(c, x, zero(c), 0)[3], ln_normalize(c, x))
      /\ Argument(OpenUnitInterval_from_normalized_ln_arg(c, ln_normalize(c, x)[1]))

SignedHalfPi(c, x) == IF x > 0 THEN OkR(frac_pi_2(c)) ELSE OkR(-frac_pi_2(c))

\* The square root asin takes of 1 - x^2.
AsinSqrtTerm(c, x) ==
  sqrt_value(c, saturating_sub(c, one(c), saturating_mul(c, x, x)))

C14_Atan2AxisCases ==
  Called("atan2") =>
    /\ (arg = 0 /\ arg2 = 0) => out = OkR(0)
    /\ (arg > 0 /\ arg2 = 0) => out = OkR(frac_pi_2(CurCtx))
    /\ (arg < 0 /\ arg2 = 0) => out = OkR(-frac_pi_2(CurCtx))
    /\ (arg = 0 /\ arg2 > 0) => out = OkR(0)
    /\ (arg = 0 /\ arg2 < 0) => out = OkR(pi(CurCtx))

\* C14 witness: atan2(0, x) has returned pi for the most negative x, where
\* the kernel run on (|x|, 0) would have panicked or left another angle.
C14_Witness ==
  /\ Called("atan2")
  /\ arg = 0
  /\ arg2 = min_value(CurCtx)
  /\ out.k = "ok"
  /\ out.v = pi(CurCtx)
  /\ atan2_without_y_axis(CurCtx, arg, arg2) # pi(CurCtx)

\* C15: for every input atan(x) lies strictly between -pi/2 and pi/2 and
\* atan2(y, x) lies in [-pi, pi], pi and pi/2 being the type's constants.
C15_AtanBounds ==
  /\ Called("atan") =>
       /\ out.k = "ok"
       /\ out.v > -frac_pi_2(CurCtx)
       /\ out.v < frac_pi_2(CurCtx)
  /\ Called("atan2") =>
       /\ out.k = "ok"
       /\ out.v >= -pi(CurCtx)
       /\ out.v <= pi(CurCtx)


\* C16: for every angle both components returned by sin_cos, and sin(angle)
\* and cos(angle), lie in [-1, 1].
C16_SinCosBounds ==
  /\ Called("sin_cos") =>
       /\ out.k = "ok"
       /\ out.v >= -one(CurCtx) /\ out.v <= one(CurCtx)
       /\ out.v2 >= -one(CurCtx) /\ out.v2 <= one(CurCtx)
  /\ (Called("sin") \/ Called("cos")) =>
       /\ out.k = "ok"
       /\ out.v >= -one(CurCtx) /\ out.v <= one(CurCtx)

\* C17: for every x, tanh(x) lies strictly between -1 and 1, also for
\* arguments large enough that sinh and cosh saturate.
C17_TanhBounds ==
  Called("tanh") =>
    /\ out.k = "ok"
    /\ out.v > -one(CurCtx)
    /\ out.v < one(CurCtx)

\* s^2 + c^2 - 1 in units of 2^-32 for two I16F16 bit patterns, computed
\* from their high parts (multiples of 256) and low bytes so that no
\* intermediate value needs more than 32 bits.  A high part above 400, or
\* high parts whose squares are more than 3000 away from 2^16, put the sum
\* more than 0.02 away from 1; that case is reported as 2^30.
PythagoreanError(s, c) ==
  LET Sum(sh, sl, ch, cl) ==
        IF AbsInt(sh) > 400 \/ AbsInt(ch) > 400
           \/ AbsInt(sh * sh + ch * ch - 65536) > 3000
        THEN Pow2(30)
        ELSE 65536 * (sh * sh + ch * ch - 65536)
             + 512 * (sh * sl + ch * cl) + sl * sl + cl * cl
  IN  Sum(s \div 256, s % 256, c \div 256, c % 256)

\* C18: for every I16F16 angle of magnitude at most 100, the pair (s, c)
\* returned by sin_cos satisfies |s^2 + c^2 - 1| < 0.01, which is
\* 42949672.96 units of 2^-32.
C18_PythagoreanIdentity ==
  (Called("sin_cos") /\ ty = I16F16 /\ AbsInt(arg) <= 100 * one(I16F16)) =>
    /\ out.k = "ok"
    /\ AbsInt(PythagoreanError(out.v, out.v2)) <= 42949672

\* C18 witness: sin_cos of the angle 100 has returned, after a reduction
\* that subtracted 2*pi sixteen times.
C18_Witness ==
  /\ Called("sin_cos")
  /\ ty = I16F16
  /\ arg = 100 * one(I16F16)
  /\ out.k = "ok"
  /\ tr.red1 = arg - 16 * (pi(CurCtx) + pi(CurCtx))
  /\ AbsInt(PythagoreanError(out.v, out.v2)) <= 42949672

LimbsLess(a, b) ==
  \E k \in 1..4 : a[k] < b[k] /\ \A j \in 1..(k - 1) : a[j] = b[j]

\* Each entry of the table is less than or equal to its predecessor.
NonIncreasing(table) ==
  \A i \in 2..Len(table) : ~LimbsLess(table[i - 1], table[i])

\* The first n entries of the table are strictly decreasing.
StrictlyDecreasing(table, n) ==
  \A i \in 2..n : LimbsLess(table[i], table[i - 1])

\* C20: ATAN_TABLE and ATANH_TABLE each have 64 entries, each entry is less
\* than or equal to its predecessor, and the first 60 entries of each table
\* are strictly decreasing; this holds of the tables every call reads, before
\* and after it.
C20_TablesMonotone ==
  pc \in {"idle", "done"} =>
    /\ Len(ATAN_TABLE) = 64
    /\ Len(ATANH_TABLE) = 64
    /\ NonIncreasing(ATAN_TABLE)
    /\ NonIncreasing(ATANH_TABLE)
    /\ StrictlyDecreasing(ATAN_TABLE, 60)
    /\ StrictlyDecreasing(ATANH_TABLE, 60)

\* C20 witness: atan has run the kernel over the table, whose entry of
\* index 1 is below that of index 0, and the last two entries of
\* ATANH_TABLE are equal.
C20_Witness ==
  /\ Called("atan")
  /\ arg = one(CurCtx)
  /\ out.k = "ok"
  /\ LimbsLess(table_lookup(ATAN_TABLE, 1), table_lookup(ATAN_TABLE, 0))
  /\ table_lookup(ATANH_TABLE, 63) = table_lookup(ATANH_TABLE, 62)

\* The value of a pattern of at most 32 bits held in limbs.
LimbsValue(v) == (IF v[1] >= 32768 THEN v[1] - 65536 ELSE v[1]) * 65536 + v[0]

\* The top 32 bits of an i64 as a signed number.
High32(bits) == (IF bits[1] >= 32768 THEN bits[1] - 65536 ELSE bits[1]) * 65536 + bits[2]

\* C21: for every supported type with f fractional bits the conversion from
\* an I1F63 (I2F62) pattern is the pattern shifted right arithmetically by
\* 63 - f (62 - f), or left by f - 63 (f - 62) when that is negative: no bit
\* of the shifted pattern is lost in the cast to the type, the sign of the
\* pattern is kept, and for the types of at most 32 bits the value is the
\* floor of the pattern divided by 2^shift, which is also what the kernels
\* compute with.
C21_ConversionShifts ==
  (pc = "done" /\ fn \in {"from_i64_frac", "from_i2f62_frac"}) =>
    LET shift == (IF fn = "from_i64_frac" THEN 63 ELSE 62) - ty.F
    IN  /\ \A k \in 0..8 : out.v[k] = ShiftedLimb(arg, shift, k)
        /\ (out.v[8] = 65535) <=> (arg[1] >= 32768)
        /\ out.v[8] \in {0, 65535}
        /\ (ty.W <= 32 /\ shift < 47) =>
             LimbsValue(out.v) = High32(arg) \div Pow2(shift - 32)
        /\ (ty.W <= 32 /\ shift >= 47) =>
             LimbsValue(out.v) = (High32(arg) \div Pow2(shift - 47)) \div Pow2(15)
        /\ ty.W <= 32 =>
             LimbsValue(out.v) =
                  IF fn = "from_i64_frac" THEN from_i64_frac(Ctx(ty, build), arg)
                  ELSE from_i2f62_frac(Ctx(ty, build), arg)

\* C21 witness: the I2F62 gain constant converted to FixedI128<U125>, the
\* largest left shift (63 bits): its top limb holds the top bits of the
\* constant and its low limbs are empty.
C21_Witness ==
  /\ pc = "done"
  /\ fn = "from_i2f62_frac"
  /\ arg = HYPERBOLIC_GAIN_INV
  /\ ty = [W |-> 128, F |-> 125]
  /\ out.v[0] = 0
  /\ out.v[7] = HYPERBOLIC_GAIN_INV[1] \div 2

\* The result of the kernel k called with (x, y, z) and run alone, from
\* entry to return.
RunAlone(c, k, xyz) ==
  CASE k = "circular_rotation" -> circular_rotation(c, xyz[1], xyz[2], xyz[3])
    [] k = "circular_vectoring" -> circular_vectoring(c, xyz[1], xyz[2], xyz[3])
    [] k = "hyperbolic_rotation" -> hyperbolic_rotation(c, xyz[1], xyz[2], xyz[3])
    [] k = "hyperbolic_vectoring" -> hyperbolic_vectoring(c, xyz[1], xyz[2], xyz[3])

\* Thread t took a step of its own.
Moved(t) == pc'[t] # pc[t] \/ tr'[t] # tr[t] \/ out'[t] # out[t]

\* C22: a call reads only its arguments and the constant tables and writes
\* only its own local variables: whatever the interleaving of the threads'
\* micro-steps and whatever calls came before, a step of one thread leaves
\* the loop variables, position and result of every other thread as they
\* were, and each call ends with the result of that call run alone.
C22_CallsArePure ==
  /\ [](\A t \in Threads :
          pc[t] = "done" =>
            IF IsPanic(RunAlone(CurCtx, fn[t], arg[t])[1]) THEN out[t].k = "panic"
            ELSE out[t].k = "ok" /\ out[t].v = RunAlone(CurCtx, fn[t], arg[t]))
  /\ [][\A t \in Threads : Moved(t) =>
          \A u \in Threads \ {t} :
            pc'[u] = pc[u] /\ tr'[u] = tr[u] /\ out'[u] = out[u] /\ arg'[u] = arg[u]]_vars

\* C22 witness: one thread has returned from a kernel while the other is
\* in the middle of the loop of the same kernel called with other
\* arguments.
C22_Witness ==
  /\ pc[1] = "done"
  /\ out[1].k = "ok"
  /\ Cardinality(Threads) = 2
  /\ pc[2] = "loop"
  /\ fn[2] = fn[1]
  /\ arg[2] # arg[1]
  /\ tr[2].iteration_count = 2
  /\ tr[1].iteration_count > 2

\* The iteration budget of a kernel.
Budget(c, k) ==
  CASE k \in {"circular_rotation", "circular_vectoring"} -> CircularIterations(c)
    [] k = "hyperbolic_rotation" -> HyperbolicRotationIterations(c)
    [] k = "hyperbolic_vectoring" -> HyperbolicVectoringIterations(c)

\* C23: a call of circular_rotation or circular_vectoring performs exactly
\* min(frac_bits, 62) micro-steps with the shift indices 0, 1, 2, ..., a
\* call of hyperbolic_rotation exactly min(frac_bits, 54) and a call of
\* hyperbolic_vectoring exactly clamp(frac_bits, 24, 54): no loop ends
\* before its budget is used, and the table index stays in 0..63.
C23_MicroStepCounts ==
  \A t \in Threads :
    pc[t] = "done" =>
      /\ tr[t].iteration_count = Budget(CurCtx, fn[t])
      /\ fn[t] \in {"circular_rotation", "circular_vectoring"} =>
           tr[t].shifts = [n \in 1..Budget(CurCtx, fn[t]) |-> n - 1]
      /\ \A n \in 1..Len(tr[t].indices) : tr[t].indices[n] \in 0..63

\* The micro-steps of thread t that used the shift index v.
UsesOf(t, v) == {n \in 1..Len(tr[t].shifts) : tr[t].shifts[n] = v}

\* needs_repeat is true exactly on the repeat set; in a hyperbolic kernel
\* the shift index starts at 1 and goes up by at most one per micro-step,
\* the table entry read with shift index i is entry i - 1, an index
\* outside the repeat set is used once, and one inside it twice as soon
\* as a later micro-step exists, and never more.
HyperbolicIndexing(t) ==
  LET sh == tr[t].shifts
  IN  /\ \A k \in 0..400 : needs_repeat(k) <=> k \in {4, 13, 40, 121, 364}
      /\ tr[t].i >= 1
      /\ Len(sh) >= 1 => sh[1] = 1
      /\ \A n \in 1..(Len(sh) - 1) : sh[n + 1] \in {sh[n], sh[n] + 1}
      /\ \A n \in 1..Len(sh) :
           /\ tr[t].indices[n] = sh[n] - 1
           /\ ~needs_repeat(sh[n]) => Cardinality(UsesOf(t, sh[n])) = 1
           /\ needs_repeat(sh[n]) =>
                /\ Cardinality(UsesOf(t, sh[n])) <= 2
                /\ n < Len(sh) => Cardinality(UsesOf(t, sh[n])) = 2

StepsOnce(t) == pc[t] = "loop" /\ tr'[t].iteration_count = tr[t].iteration_count + 1

\* The coordinates after a micro-step of the kernel k from the loop
\* variables s, as the rule of the kernel gives them: the direction from
\* z (rotation) or y (vectoring) at the start of the step, x and y both
\* from their values at the start of the step, z moved by the table angle.
RuleOfStep(c, k, s) ==
  LET sx == shr(c, s.x, s.i)
      sy == shr(c, s.y, s.i)
      circular == k \in {"circular_rotation", "circular_vectoring"}
      angle == IF circular THEN from_i64_frac(c, ATAN_TABLE[s.i + 1])
               ELSE from_i64_frac(c, ATANH_TABLE[s.i])
      nonneg == IF k \in {"circular_rotation", "hyperbolic_rotation"} THEN s.z >= 0
                ELSE s.y >= 0
  IN  CASE k = "circular_rotation" ->
             IF nonneg
             THEN <<saturating_sub(c, s.x, sy), saturating_add(c, s.y, sx), sub(c, s.z, angle)>>
             ELSE <<saturating_add(c, s.x, sy), saturating_sub(c, s.y, sx), add(c, s.z, angle)>>
        [] k = "circular_vectoring" ->
             IF nonneg
             THEN <<saturating_add(c, s.x, sy), saturating_sub(c, s.y, sx), add(c, s.z, angle)>>
             ELSE <<saturating_sub(c, s.x, sy), saturating_add(c, s.y, sx), sub(c, s.z, angle)>>
        [] k = "hyperbolic_rotation" ->
             IF nonneg
             THEN <<saturating_add(c, s.x, sy), saturating_add(c, s.y, sx), sub(c, s.z, angle)>>
             ELSE <<saturating_sub(c, s.x, sy), saturating_sub(c, s.y, sx), add(c, s.z, angle)>>
        [] k = "hyperbolic_vectoring" ->
             IF nonneg
             THEN <<saturating_sub(c, s.x, sy), saturating_sub(c, s.y, sx), add(c, s.z, angle)>>
             ELSE <<saturating_add(c, s.x, sy), saturating_add(c, s.y, sx), sub(c, s.z, angle)>>

\* C25: in every micro-step of every kernel the direction is chosen from
\* the value at the start of the step (rotation: z >= 0 takes the branch
\* in which z decreases by the table angle, z < 0 the one in which it
\* increases; vectoring: y >= 0 takes the branch in which z increases,
\* y < 0 the one in which it decreases), and x and y are both updated from
\* their values before the step.
C25_DirectionOfMicroStep ==
  [][\A t \in Threads :
       (Tracked(CurCtx) /\ StepsOnce(t)) =>
         <<tr'[t].x, tr'[t].y, tr'[t].z>> = RuleOfStep(CurCtx, fn[t], tr[t])]_vars

\* C25 witness: circular_rotation(K, 0, -1.0) on FixedI8<U4> after its
\* second micro-step, which took the negative branch (z was -4) from
\* x = 9, y = -9 with shift 1: x = 9 + (-9 >> 1) = 4 and
\* y = -9 - (9 >> 1) = -13, both from the old pair, z = -4 + 7 = 3.
C25_Witness ==
  /\ ty = I4F4 /\ Cardinality(Threads) = 1
  /\ pc[1] = "loop" /\ fn[1] = "circular_rotation"
  /\ arg[1] = <<circular_gain_inv(CurCtx), 0, -one(CurCtx)>>
  /\ tr[1].iteration_count = 2
  /\ tr[1].x = 4 /\ tr[1].y = -13 /\ tr[1].z = 3

\* The third-order polynomial x + x^3/6 and the fourth-order polynomial
\* 1 + x^2/2 + x^4/24 in the type's arithmetic (products truncated to the
\* type's resolution).
TaylorSinh3(c, x) ==
  LET x_sq == saturating_mul(c, x, x)
      x_cu == saturating_mul(c, x_sq, x)
  IN  saturating_add(c, x, x_cu \div 6)

TaylorCosh4(c, x) ==
  LET x_sq == saturating_mul(c, x, x)
      x_4 == saturating_mul(c, x_sq, x_sq)
  IN  saturating_add(c, saturating_add(c, one(c), shr(c, x_sq, 1)), x_4 \div 24)

\* The threshold of the polynomial branch: 0.05 with at least 24
\* fractional bits, 0.1 otherwise.
TaylorThreshold(c) == IF c.F >= 24 THEN from_num(c, 1, 20) ELSE from_num(c, 1, 10)

\* C26: sinh_cosh selects one of three regimes by |x|. For |x| up to the
\* hyperbolic convergence limit: below the threshold (0.1 for a type with
\* fewer than 24 fractional bits) the result is the Taylor polynomial of
\* order 3 (sinh) and 4 (cosh), here accepted within two units of the last
\* place whatever the order of evaluation; from the threshold on it is the
\* hyperbolic rotation from (1/K_h, 0, x).
C26_ThreeRegimes ==
  (Called("sinh_cosh") /\ ty.F >= 13 /\ AbsInt(arg) <= HyperbolicLimit(CurCtx)) =>
    IF AbsInt(arg) < TaylorThreshold(CurCtx)
    THEN /\ out.k = "ok"
         /\ AbsInt(out.v - TaylorSinh3(CurCtx, arg)) <= 2
         /\ AbsInt(out.v2 - TaylorCosh4(CurCtx, arg)) <= 2
    ELSE out = OkPair(<<hyperbolic_rotation(CurCtx, hyperbolic_gain_inv(CurCtx), zero(CurCtx), arg)[2],
                        hyperbolic_rotation(CurCtx, hyperbolic_gain_inv(CurCtx), zero(CurCtx), arg)[1]>>)

\* 2^k in the type c, k the signed number of ln2 subtractions: the bit
\* pattern of 1.0 doubled k times, or halved -k times (truncated); Panic
\* where 2^k is above the type's range.
ScaleOfTwo(c, k) ==
  IF k >= 0
  THEN IF k >= c.W - c.F - 1 THEN Panic ELSE one(c) * Pow2(k)
  ELSE IF -k > c.F THEN 0 ELSE one(c) \div Pow2(-k)

\* C27: for every x with |x| > 2 ln2 the reduction loop of exp ends
\* before its 128-iteration guard is reached, with |reduced| <= ln2, with
\* scale_factor = 2^k for the signed number k of ln2 subtractions, and
\* with x = reduced + k ln2.
C27_ExpReduction ==
  (Called("exp") /\ AbsInt(arg) > 2 * ln_2(CurCtx)) =>
    /\ tr.reducing
    /\ tr.iterations < ExpMaxIterations
    /\ ~IsPanic(tr.reduced)
    /\ AbsInt(tr.reduced) <= ln_2(CurCtx)
    /\ tr.scale_factor =
         ScaleOfTwo(CurCtx, IF arg > 0 THEN tr.iterations ELSE -tr.iterations)
    /\ arg = tr.reduced
               + (IF arg > 0 THEN tr.iterations ELSE -tr.iterations) * ln_2(CurCtx)

\* The argument the function f passes to the inner atanh for the input x
\* (asinh: x / sqrt(1 + x^2); acosh: sqrt(x^2 - 1) / x; acoth: 1 / x), with
\* saturating multiplication, the library's sqrt and truncating division.
InnerAtanhArgument(c, f, x) ==
  CASE f = "asinh" ->
         div(c, x, sqrt_value(c, saturating_add(c, one(c), saturating_mul(c, x, x))))
    [] f = "acosh" ->
         div(c, sqrt_value(c, saturating_sub(c, saturating_mul(c, x, x), one(c))), x)
    [] f = "acoth" -> div(c, one(c), x)

\* The inputs for which f reaches its inner atanh.
ReachesInnerAtanh(c, f, x) ==
  CASE f = "asinh" -> x # zero(c)
    [] f = "acosh" -> x > one(c)
    [] f = "acoth" -> AbsInt(x) > one(c)

\* C28: for every input, the argument asinh, acosh (x > 1) and acoth
\* (|x| > 1) pass to the inner atanh is strictly between -1 and 1, and
\* the call returns.
C28_InnerAtanhArgument ==
  \A f \in {"asinh", "acosh", "acoth"} :
    (Called(f) /\ ReachesInnerAtanh(CurCtx, f, arg)) =>
      /\ -one(CurCtx) < InnerAtanhArgument(CurCtx, f, arg)
      /\ InnerAtanhArgument(CurCtx, f, arg) < one(CurCtx)
      /\ out.k = "ok"

\* C29: in all four kernels and for every supported type, each shift
\* amount applied to x or y is strictly less than the type's total bit
\* width, hyperbolic_vectoring with its 24-iteration floor included.
C29_ShiftsBelowWidth ==
  \A t \in Threads :
    \A j \in 1 .. Len(tr[t].shifts) : tr[t].shifts[j] < ty.W

\* Every division of the sequence ds has a strictly positive divisor and
\* a quotient the type c can represent.
DivisionsSafe(c, ds) ==
  \A j \in 1 .. Len(ds) : ds[j].divisor > 0 /\ InRange(c, ds[j].quotient)

\* C30: in sqrt_nonneg, for every non-negative input other than 0 and 1,
\* the divisor (the power-of-two estimate g and every Newton guess) is
\* strictly positive at each division, each quotient is representable, the
\* call returns, and the Newton loop performs at most
\* clamp(frac_bits / 2, 8, 20) iterations.
C30_SqrtDivisions ==
  (Called("sqrt_nonneg") /\ arg # zero(CurCtx) /\ arg # one(CurCtx)) =>
    /\ DivisionsSafe(CurCtx, tr.estimate)
    /\ DivisionsSafe(CurCtx, tr.newton)
    /\ out.k = "ok"
    /\ Len(tr.newton) >= 1
    /\ Len(tr.newton) <= Clamp(ty.F \div 2, 8, 20)
=============================================================================
